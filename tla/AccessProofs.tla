------------------------------ MODULE AccessProofs ------------------------------
(***************************************************************************)
(* Who gets in and what is seen, proved: sessions, revoked tokens, login   *)
(* limits, signed forms, the release of the results, demo mode, corrected  *)
(* applications.  The theorems of each component are about its own         *)
(* specification; the last one is about their composition.                 *)
(***************************************************************************)
EXTENDS MCAccess, FiniteSetTheorems, TLAPS

-----------------------------------------------------------------------------
(* An administrator's sessions (AdminSessions).                                *)

Passwords == {"temp", "own", "absent", "none"}

Account == [held : SUBSET Seats, cutoff : Nat,
            password : [AdminRoles -> Passwords] \cup [{"vetting"} -> Passwords]]

SessionTypes ==
    /\ second \in Nat
    /\ account \in [{"voter", "panel"} -> Account]
    /\ tokens \in [TokenIds -> Token]
    /\ sessions \in [Signers -> Session]

(* No stamp lies ahead, and the voter document holds no seat on the panel. *)
AccountsKept ==
    /\ \A d \in {"voter", "panel"} : account[d].cutoff <= second
    /\ account["voter"].held \subseteq AdminRoles

(* The next number is free. *)
Numbered == \E n \in Nat : Minted = 1 .. n

GoodToken(token) ==
    /\ token.home \in {"none", token.root}
    /\ token.role \in {token.root, "vetting"}
    /\ token.full => token.proof = "own"

TokensGood ==
    \A t \in Minted : GoodToken(tokens[t]) /\ (tokens[t].parent # 0 => tokens[t].parent \in given)

(* What a request has in its hands. *)
FitSession(s) ==
    /\ s.pc = "mint" => GoodToken(s.new) /\ s.new.parent = 0
    /\ s.pc \in {"account", "hat", "password", "revoke", "reply", "store"} => s.token \in Minted
    /\ s.pc = "hat" => tokens[s.token].full
    /\ s.pc \in {"revoke", "reply"} => s.new = NoToken \/ (GoodToken(s.new) /\ s.new.parent = s.token)
    /\ s.pc = "reply" => s.token \in given

SessionInv ==
    /\ SessionTypes /\ AccountsKept /\ Numbered /\ TokensGood
    /\ \A c \in Signers : FitSession(sessions[c])

LEMMA NothingInHand ==
    /\ NoToken \in Token /\ NoSession \in Session
    /\ NoSession.pc = "idle" /\ NoSession.token = 0 /\ NoSession.new = NoToken
    /\ FitSession(NoSession) /\ FitSession(NoSession)'
<1>1. NoToken \in Token
  BY DEF NoToken, Token
<1>2. NoSession \in Session
  BY <1>1 DEF NoSession, Session
<1> QED
  BY <1>1, <1>2 DEF NoSession, FitSession

LEMMA SessionsInvInit == SessionsInit => SessionInv
<1> SUFFICES ASSUME SessionsInit PROVE SessionInv
  OBVIOUS
<1>1. PICK p \in {"temp", "own"}, q \in {"absent", "own"} :
          account = [voter |-> [held |-> AdminRoles, cutoff |-> 0, password |-> [r \in AdminRoles |-> p]],
                     panel |-> [held |-> IF q = "own" THEN {"vetting"} ELSE {}, cutoff |-> 0,
                                password |-> [r \in {"vetting"} |-> q]]]
  BY DEF SessionsInit
<1>2. /\ [r \in AdminRoles |-> p] \in [AdminRoles -> Passwords]
      /\ [r \in {"vetting"} |-> q] \in [{"vetting"} -> Passwords]
  BY DEF Passwords
<1>3. /\ account["voter"] = [held |-> AdminRoles, cutoff |-> 0, password |-> [r \in AdminRoles |-> p]]
      /\ account["panel"] = [held |-> IF q = "own" THEN {"vetting"} ELSE {}, cutoff |-> 0,
                             password |-> [r \in {"vetting"} |-> q]]
  BY <1>1
<1>4. account["voter"] \in Account /\ account["panel"] \in Account
  BY <1>2, <1>3 DEF Account, Seats
<1>5. account \in [{"voter", "panel"} -> Account]
  BY <1>1, <1>3, <1>4
<1>6. Minted = {}
  BY DEF SessionsInit, Minted, NoToken
<1>7. SessionTypes
  BY <1>5, NothingInHand DEF SessionsInit, SessionTypes
<1>8. AccountsKept
  BY <1>3 DEF AccountsKept, SessionsInit
<1>9. Numbered
  BY <1>6 DEF Numbered
<1> QED
  BY <1>6, <1>7, <1>8, <1>9, NothingInHand DEF SessionInv, TokensGood, SessionsInit

(* What a request holds stays good while tokens are only added and revoked. *)
LEMMA FitStays ==
    ASSUME NEW s, FitSession(s), given \subseteq given', Minted \subseteq Minted',
           \A t \in Minted : tokens'[t] = tokens[t]
    PROVE  FitSession(s)'
BY DEF FitSession, GoodToken

LEMMA SessionMoves ==
    ASSUME SessionInv, NEW c \in Signers, NEW s \in Session, FitSession(s),
           sessions' = [sessions EXCEPT ![c] = s], UNCHANGED <<second, account, tokens, given>>
    PROVE  SessionInv'
<1>1. sessions \in [Signers -> Session]
  BY DEF SessionInv, SessionTypes
<1>2. /\ sessions' \in [Signers -> Session]
      /\ \A x \in Signers : sessions'[x] = IF x = c THEN s ELSE sessions[x]
  BY <1>1
<1>3. SessionTypes' /\ AccountsKept' /\ Numbered' /\ TokensGood'
  BY <1>2 DEF SessionInv, SessionTypes, AccountsKept, Numbered, TokensGood, Minted, GoodToken
<1>4. \A x \in Signers : FitSession(sessions'[x])
  BY <1>2 DEF SessionInv
<1>5. \A x \in Signers : FitSession(sessions[x])'
  BY <1>4 DEF FitSession, Minted, GoodToken
<1> QED
  BY <1>3, <1>5 DEF SessionInv

LEMMA AccountMoves ==
    ASSUME SessionInv, NEW d \in {"voter", "panel"}, NEW n \in Account, n.cutoff <= second,
           d = "voter" => n.held \subseteq AdminRoles,
           account' = [account EXCEPT ![d] = n], UNCHANGED <<second, tokens, given>>,
           sessions' \in [Signers -> Session],
           \A x \in Signers : sessions'[x] = sessions[x] \/ sessions'[x] = NoSession
    PROVE  SessionInv'
<1>1. account \in [{"voter", "panel"} -> Account]
  BY DEF SessionInv, SessionTypes
<1>2. /\ account' \in [{"voter", "panel"} -> Account]
      /\ \A x \in {"voter", "panel"} : account'[x] = IF x = d THEN n ELSE account[x]
  BY <1>1
<1>3. AccountsKept'
  BY <1>2 DEF AccountsKept, SessionInv
<1>4. SessionTypes' /\ Numbered' /\ TokensGood'
  BY <1>2 DEF SessionInv, SessionTypes, Numbered, TokensGood, Minted, GoodToken
<1>5. \A x \in Signers : FitSession(sessions'[x])
  BY NothingInHand DEF SessionInv
<1>6. \A x \in Signers : FitSession(sessions[x])'
  BY <1>5 DEF FitSession, Minted, GoodToken
<1> QED
  BY <1>3, <1>4, <1>6 DEF SessionInv

LEMMA Delivered ==
    ASSUME SessionInv, NEW k \in Token, Deliver(k), GoodToken(k),
           k.parent = 0 \/ k.parent \in given, NEW c \in Signers,
           sessions' = [sessions EXCEPT ![c] = NoSession], UNCHANGED <<second, account, given>>
    PROVE  SessionInv'
<1>1. tokens \in [TokenIds -> Token] /\ sessions \in [Signers -> Session]
  BY DEF SessionInv, SessionTypes
<1> DEFINE j == [k EXCEPT !.delivered = TRUE]
<1>2. j \in Token /\ j.delivered /\ GoodToken(j) /\ j.parent = k.parent
  BY DEF Token, GoodToken
<1>3. PICK n \in Nat : Minted = 1 .. n
  BY DEF SessionInv, Numbered
<1>4. Cardinality(Minted) = n
  BY <1>3, FS_Interval
<1>5. PICK t \in TokenIds : t = 1 + n /\ tokens' = [tokens EXCEPT ![t] = j]
  BY <1>4 DEF Deliver
<1> HIDE DEF j
<1>6. /\ tokens' \in [TokenIds -> Token]
      /\ \A x \in TokenIds : tokens'[x] = IF x = t THEN j ELSE tokens[x]
  BY <1>1, <1>2, <1>5
<1>7. Minted' = Minted \cup {t}
  BY <1>2, <1>6 DEF Minted
<1>8. Minted' = 1 .. n + 1
  BY <1>3, <1>5, <1>7
<1>9. \A x \in Minted : tokens'[x] = tokens[x] /\ x # t
  BY <1>3, <1>5, <1>6 DEF Minted
<1>10. SessionTypes'
  BY <1>1, <1>6, NothingInHand DEF SessionInv, SessionTypes
<1>11. AccountsKept' /\ Numbered'
  BY <1>8 DEF SessionInv, AccountsKept, Numbered
<1>12. TokensGood'
  <2> SUFFICES ASSUME NEW x \in Minted'
               PROVE  GoodToken(tokens'[x]) /\ (tokens'[x].parent # 0 => tokens'[x].parent \in given')
    BY DEF TokensGood, GoodToken
  <2>1. CASE x = t
    BY <1>2, <1>6, <2>1
  <2>2. CASE x \in Minted
    BY <1>9, <2>2 DEF SessionInv, TokensGood
  <2> QED
    BY <1>7, <2>1, <2>2
<1>13. ASSUME NEW x \in Signers PROVE FitSession(sessions[x])'
  <2>1. sessions'[x] = NoSession \/ sessions'[x] = sessions[x]
    BY <1>1
  <2>2. FitSession(sessions[x])
    BY DEF SessionInv
  <2>3. \A y : FitSession(y) => (/\ y.pc = "mint" => GoodToken(y.new) /\ y.new.parent = 0
                                 /\ y.pc \in {"account", "hat", "password", "revoke", "reply", "store"} => y.token \in Minted'
                                 /\ y.pc = "hat" => tokens'[y.token].full
                                 /\ y.pc \in {"revoke", "reply"} => y.new = NoToken \/ (GoodToken(y.new) /\ y.new.parent = y.token)
                                 /\ y.pc = "reply" => y.token \in given')
    BY <1>7, <1>9 DEF FitSession
  <2> QED
    BY <2>1, <2>2, <2>3, NothingInHand DEF FitSession, GoodToken
<1> QED
  BY <1>10, <1>11, <1>12, <1>13 DEF SessionInv

LEMMA SessionsInvStep == SessionInv /\ [SessionsNext]_sessionVars => SessionInv'
<1> SUFFICES ASSUME SessionInv, [SessionsNext]_sessionVars PROVE SessionInv'
  OBVIOUS
<1>1. /\ second \in Nat /\ account \in [{"voter", "panel"} -> Account]
      /\ tokens \in [TokenIds -> Token] /\ sessions \in [Signers -> Session]
      /\ \A c \in Signers : FitSession(sessions[c])
  BY DEF SessionInv, SessionTypes
<1>2. /\ Paused \subseteq AdminRoles /\ "vetting" \notin AdminRoles /\ "none" \notin AdminRoles
      /\ Seats = AdminRoles \cup {"vetting"}
  BY SessionsAssumption DEF Seats
<1>3. \A role : DocOf(role) \in {"voter", "panel"}
  BY DEF DocOf
<1>4. CASE NextSecond
  <2>1. second' = second + 1 /\ UNCHANGED <<account, tokens, given, sessions>>
    BY <1>4 DEF NextSecond
  <2>2. \A d \in {"voter", "panel"} : account[d].cutoff \in Nat
    BY <1>1 DEF Account
  <2>3. SessionTypes' /\ AccountsKept'
    BY <1>1, <2>1, <2>2 DEF SessionInv, SessionTypes, AccountsKept
  <2> QED
    BY <2>1, <2>3 DEF SessionInv, Numbered, TokensGood, FitSession, Minted, GoodToken
<1>5. ASSUME NEW role \in Seats, ResetPassword(role)
      PROVE  SessionInv'
  <2> DEFINE d == DocOf(role)
             n == [account[d] EXCEPT !.password[role] = "temp", !.cutoff = second]
  <2>1. account' = [account EXCEPT ![d] = n] /\ UNCHANGED <<second, tokens, given, sessions>>
    BY <1>1, <1>3, <1>5 DEF ResetPassword, Stamp
  <2>2. account[d] \in Account
    BY <1>1, <1>3
  <2>3. n \in Account /\ n.cutoff = second /\ n.held = account[d].held
    BY <1>1, <2>2 DEF Account, Passwords
  <2> HIDE DEF n, d
  <2>4. d = "voter" => n.held \subseteq AdminRoles
    BY <2>3 DEF SessionInv, AccountsKept
  <2>5. d \in {"voter", "panel"} /\ n.cutoff <= second
    BY <1>1, <1>3, <2>3 DEF d
  <2> QED
    BY <1>1, <2>1, <2>3, <2>4, <2>5, AccountMoves
<1>6. ASSUME NEW role \in Seats, ToggleRole(role)
      PROVE  SessionInv'
  <2> DEFINE d == DocOf(role)
             held == account[d].held
             n == [account[d] EXCEPT !.held = IF role \in held THEN held \ {role} ELSE held \cup {role},
                                     !.cutoff = second]
  <2>1. account' = [account EXCEPT ![d] = n] /\ UNCHANGED <<second, tokens, given, sessions>>
    BY <1>1, <1>3, <1>6 DEF ToggleRole, Stamp
  <2>2. account[d] \in Account
    BY <1>1, <1>3
  <2>3. n \in Account /\ n.cutoff = second /\ n.held \subseteq held \cup {role}
    BY <1>1, <2>2 DEF Account
  <2>4. d = "voter" => n.held \subseteq AdminRoles
    BY <1>2, <2>3 DEF SessionInv, AccountsKept, DocOf
  <2> HIDE DEF n, d
  <2>5. d \in {"voter", "panel"} /\ n.cutoff <= second
    BY <1>1, <1>3, <2>3 DEF d
  <2> QED
    BY <1>1, <2>1, <2>3, <2>4, <2>5, AccountMoves
<1>7. ASSUME NEW password \in {"temp", "none"}, JoinPanel(password)
      PROVE  SessionInv'
  <2> DEFINE n == [account["panel"] EXCEPT !.held = {"vetting"}, !.password["vetting"] = password]
  <2>1. account' = [account EXCEPT !["panel"] = n] /\ UNCHANGED <<second, tokens, given, sessions>>
    <3>1. /\ account' = [account EXCEPT !["panel"].held = {"vetting"}, !["panel"].password["vetting"] = password]
          /\ UNCHANGED <<second, tokens, given, sessions>>
      BY <1>7 DEF JoinPanel
    <3>2. account["panel"] \in Account
      BY <1>1
    <3>3. account'["panel"] = n /\ account'["voter"] = account["voter"]
      BY <1>1, <3>1, <3>2 DEF Account
    <3>4. account' = [x \in {"voter", "panel"} |-> IF x = "panel" THEN n ELSE account[x]]
      BY <1>1, <3>1, <3>3
    <3> QED
      BY <1>1, <3>1, <3>4
  <2>2. account["panel"] \in Account
    BY <1>1
  <2>3. n \in Account /\ n.cutoff = account["panel"].cutoff
    BY <1>2, <2>2 DEF Account, Passwords
  <2> HIDE DEF n
  <2>4. n.cutoff <= second
    BY <2>3 DEF SessionInv, AccountsKept
  <2> QED
    BY <1>1, <2>1, <2>3, <2>4, AccountMoves
<1>8. ASSUME NEW c \in Signers, NEW role \in Seats, BeginLogin(c, role)
      PROVE  SessionInv'
  <2> DEFINE p == account[DocOf(role)].password[role]
             k == [NoToken EXCEPT !.role = role, !.root = role, !.full = (p = "own"), !.proof = p]
             s == [NoSession EXCEPT !.pc = "mint", !.new = k]
  <2>1. /\ sessions' = [sessions EXCEPT ![c] = s] /\ UNCHANGED <<second, account, tokens, given>>
        /\ p \in {"temp", "own"}
    BY <1>8 DEF BeginLogin, LoginScope
  <2> HIDE DEF p
  <2>2. k \in Token /\ k.role = role /\ k.root = role /\ k.home = "none" /\ k.proof = p /\ (k.full <=> p = "own")
        /\ k.parent = 0
    BY <2>1 DEF Token, NoToken
  <2>3. GoodToken(k)
    BY <2>2 DEF GoodToken
  <2> HIDE DEF k
  <2>4. s \in Session /\ s.pc = "mint" /\ s.new = k
    BY <2>2, NothingInHand DEF Session, NoSession
  <2> HIDE DEF s
  <2>5. FitSession(s)
    BY <2>2, <2>3, <2>4 DEF FitSession
  <2> QED
    BY <2>1, <2>4, <2>5, SessionMoves
<1>9. ASSUME NEW c \in Signers, NEW t \in TokenIds, RequestArrives(c, t)
      PROVE  SessionInv'
  <2> DEFINE s == [NoSession EXCEPT !.pc = "account", !.token = t]
  <2>1. /\ sessions' = [sessions EXCEPT ![c] = s] /\ UNCHANGED <<second, account, tokens, given>>
        /\ t \in Minted
    BY <1>9 DEF RequestArrives
  <2>2. s \in Session /\ s.pc = "account" /\ s.token = t
    BY NothingInHand DEF Session, NoSession
  <2> HIDE DEF s
  <2>3. FitSession(s)
    BY <2>1, <2>2 DEF FitSession
  <2> QED
    BY <2>1, <2>2, <2>3, SessionMoves
<1>10. ASSUME NEW c \in Signers, FinishLogin(c)
       PROVE  SessionInv'
  <2> DEFINE o == sessions[c]
             k == [o.new EXCEPT !.iat = second]
  <2>1. /\ o.pc = "mint" /\ Deliver(k) /\ sessions' = [sessions EXCEPT ![c] = NoSession]
        /\ UNCHANGED <<second, account, given>>
    BY <1>10 DEF FinishLogin
  <2>2. o.new \in Token /\ GoodToken(o.new) /\ o.new.parent = 0
    BY <1>1, <2>1 DEF Session, FitSession
  <2>3. k \in Token /\ GoodToken(k) /\ k.parent = 0
    BY <1>1, <2>2 DEF Token, GoodToken
  <2> HIDE DEF k
  <2> QED
    BY <2>1, <2>3, Delivered
<1>11. ASSUME NEW c \in Signers, CheckAccount(c)
       PROVE  SessionInv'
  <2> DEFINE o == sessions[c]
  <2>1. PICK path \in {"idle", "revoke", "hat", "password"} :
           /\ path = "idle" \/ Through(tokens[o.token], path)
           /\ sessions' = [sessions EXCEPT ![c] = IF path = "idle" THEN NoSession
                                                  ELSE [NoSession EXCEPT !.pc = path, !.token = o.token]]
    BY <1>11 DEF CheckAccount
  <2>2. o \in Session /\ o.token \in Minted /\ UNCHANGED <<second, account, tokens, given>>
    BY <1>1, <1>11 DEF CheckAccount, FitSession
  <2>3. CASE path = "idle"
    BY <2>1, <2>2, <2>3, NothingInHand, SessionMoves
  <2>4. CASE path # "idle"
    <3> DEFINE s == [NoSession EXCEPT !.pc = path, !.token = o.token]
    <3>1. s \in Session /\ s.pc = path /\ s.token = o.token /\ s.new = NoToken
      BY <2>2, NothingInHand DEF Session, NoSession
    <3>2. path = "hat" => tokens[o.token].full
      BY <2>1, <2>4 DEF Through
    <3>3. sessions' = [sessions EXCEPT ![c] = s]
      BY <2>1, <2>4
    <3> HIDE DEF s
    <3>4. FitSession(s)
      BY <2>2, <2>4, <3>1, <3>2 DEF FitSession
    <3> QED
      BY <2>2, <3>1, <3>3, <3>4, SessionMoves
  <2> QED
    BY <2>3, <2>4
<1>12. ASSUME NEW c \in Signers, SwitchHat(c)
       PROVE  SessionInv'
  <2> DEFINE o == sessions[c]
             token == tokens[o.token]
  <2>1. o \in Session /\ o.pc = "hat" /\ o.token \in Minted /\ token.full
        /\ UNCHANGED <<second, account, tokens, given>>
    BY <1>1, <1>12 DEF SwitchHat, FitSession
  <2>2. token \in Token /\ GoodToken(token) /\ o.token \in TokenIds
    BY <1>1, <2>1 DEF SessionInv, TokensGood, Minted
  <2>3. ASSUME NEW role \in HatFor(token),
               sessions' = [sessions EXCEPT
                    ![c].pc = "revoke",
                    ![c].new = [token EXCEPT !.role = role, !.iat = second, !.full = TRUE,
                                             !.home = IF role = "vetting" THEN token.role ELSE "none",
                                             !.parent = o.token]]
        PROVE  SessionInv'
    <3> DEFINE k == [token EXCEPT !.role = role, !.iat = second, !.full = TRUE,
                                  !.home = IF role = "vetting" THEN token.role ELSE "none",
                                  !.parent = o.token]
               s == [o EXCEPT !.pc = "revoke", !.new = k]
    <3>1. \/ role = "vetting" /\ token.role \in AdminRoles
          \/ role = token.home /\ role \in AdminRoles
      BY <2>3 DEF HatFor, Homes, SessionInv, AccountsKept
    <3>2. /\ k.role = role /\ k.full /\ k.root = token.root /\ k.proof = token.proof /\ k.parent = o.token
          /\ k.home = IF role = "vetting" THEN token.role ELSE "none"
      BY <2>2 DEF Token
    <3>3. k \in Token
      BY <1>1, <1>2, <2>2, <3>1 DEF Token
    <3>4. GoodToken(k)
      BY <1>2, <2>1, <2>2, <3>1, <3>2 DEF GoodToken
    <3>5. sessions' = [sessions EXCEPT ![c] = s]
      BY <1>1, <2>3
    <3> HIDE DEF k, token
    <3>6. s \in Session /\ s.pc = "revoke" /\ s.new = k /\ s.token = o.token
      BY <2>1, <3>3 DEF Session
    <3> HIDE DEF s
    <3>7. FitSession(s)
      BY <2>1, <3>2, <3>4, <3>6 DEF FitSession
    <3> QED
      BY <2>1, <3>5, <3>6, <3>7, SessionMoves
  <2>4. CASE sessions' = [sessions EXCEPT ![c] = NoSession]
    BY <2>1, <2>4, NothingInHand, SessionMoves
  <2> QED
    BY <1>12, <2>3, <2>4 DEF SwitchHat
<1>13. ASSUME NEW c \in Signers, Revoke(c)
       PROVE  SessionInv'
  <2> DEFINE o == sessions[c]
             s == [o EXCEPT !.pc = "reply"]
  <2>1. /\ o.pc = "revoke" /\ given' = given \cup {o.token} /\ sessions' = [sessions EXCEPT ![c] = s]
        /\ UNCHANGED <<second, account, tokens>>
    BY <1>1, <1>13 DEF Revoke, GivenUp
  <2>2. o \in Session /\ FitSession(o)
    BY <1>1
  <2>3. s \in Session /\ s.pc = "reply" /\ s.new = o.new /\ s.token = o.token
    BY <2>2 DEF Session
  <2>4. /\ sessions' \in [Signers -> Session]
        /\ \A x \in Signers : sessions'[x] = IF x = c THEN s ELSE sessions[x]
    BY <1>1, <2>1, <2>3
  <2> HIDE DEF s
  <2>5. SessionTypes' /\ AccountsKept' /\ Numbered'
    BY <2>1, <2>4 DEF SessionInv, SessionTypes, AccountsKept, Numbered, Minted
  <2>6. TokensGood'
    BY <2>1 DEF SessionInv, TokensGood, Minted, GoodToken
  <2>7. ASSUME NEW x \in Signers PROVE FitSession(sessions[x])'
    <3>1. CASE x = c
      BY <2>1, <2>2, <2>3, <2>4, <3>1 DEF FitSession, Minted, GoodToken
    <3>2. CASE x # c
      BY <1>1, <2>1, <2>4, <3>2 DEF FitSession, Minted, GoodToken
    <3> QED
      BY <3>1, <3>2
  <2> QED
    BY <2>5, <2>6, <2>7 DEF SessionInv
<1>14. ASSUME NEW c \in Signers, ReplyRevoked(c)
       PROVE  SessionInv'
  <2> DEFINE o == sessions[c]
  <2>1. /\ o.pc = "reply" /\ sessions' = [sessions EXCEPT ![c] = NoSession]
        /\ UNCHANGED <<second, account, given>>
        /\ IF o.new = NoToken THEN UNCHANGED tokens ELSE Deliver(o.new)
    BY <1>14 DEF ReplyRevoked
  <2>2. CASE o.new = NoToken
    BY <2>1, <2>2, NothingInHand, SessionMoves
  <2>3. CASE o.new # NoToken
    <3>1. o.new \in Token /\ GoodToken(o.new) /\ o.new.parent \in given
      BY <1>1, <2>1, <2>3 DEF Session, FitSession
    <3> QED
      BY <2>1, <2>3, <3>1, Delivered
  <2> QED
    BY <2>2, <2>3
<1>15. ASSUME NEW c \in Signers, BeginSetPassword(c)
       PROVE  SessionInv'
  <2> DEFINE o == sessions[c]
             s == [o EXCEPT !.pc = "store"]
  <2>1. /\ o.pc = "password" /\ UNCHANGED <<second, account, tokens, given>>
        /\ sessions' = [sessions EXCEPT ![c] = s] \/ sessions' = [sessions EXCEPT ![c] = NoSession]
    BY <1>1, <1>15 DEF BeginSetPassword
  <2>2. o \in Session /\ FitSession(o)
    BY <1>1
  <2>3. s \in Session /\ s.pc = "store" /\ s.token = o.token
    BY <2>2 DEF Session
  <2> HIDE DEF s
  <2>4. FitSession(s)
    BY <2>1, <2>2, <2>3 DEF FitSession
  <2> QED
    BY <2>1, <2>3, <2>4, NothingInHand, SessionMoves
<1>16. ASSUME NEW c \in Signers, SetPassword(c)
       PROVE  SessionInv'
  <2> DEFINE role == tokens[sessions[c].token].role
             d == DocOf(role)
             n == [account[d] EXCEPT !.password[role] = "own", !.cutoff = second]
  <2>1. /\ account' = [account EXCEPT ![d] = n] /\ UNCHANGED <<second, tokens, given>>
        /\ sessions' = [sessions EXCEPT ![c] = NoSession]
    BY <1>1, <1>3, <1>16 DEF SetPassword, Stamp
  <2>2. account[d] \in Account
    BY <1>1, <1>3
  <2>3. n \in Account /\ n.cutoff = second /\ n.held = account[d].held
    BY <1>1, <2>2 DEF Account, Passwords
  <2>4. d = "voter" => account["voter"].held \subseteq AdminRoles
    BY DEF SessionInv, AccountsKept
  <2>5. /\ sessions' \in [Signers -> Session]
        /\ \A x \in Signers : sessions'[x] = sessions[x] \/ sessions'[x] = NoSession
    BY <1>1, <2>1, NothingInHand
  <2> HIDE DEF n, d
  <2>6. d \in {"voter", "panel"} /\ n.cutoff <= second /\ (d = "voter" => n.held \subseteq AdminRoles)
    BY <1>1, <1>3, <2>3, <2>4 DEF d
  <2> QED
    BY <2>1, <2>3, <2>5, <2>6, AccountMoves
<1>17. CASE UNCHANGED sessionVars
  BY <1>17 DEF sessionVars, SessionInv, SessionTypes, AccountsKept, Numbered, TokensGood, FitSession, Minted, GoodToken
<1> QED
  BY <1>4, <1>5, <1>6, <1>7, <1>8, <1>9, <1>10, <1>11, <1>12, <1>13, <1>14, <1>15, <1>16, <1>17 DEF SessionsNext

(* Who holds a new hat has given the old one up; nobody gets a role or a full    *)
(* session his login did not prove a password for, however often hats were       *)
(* changed and passwords reset; and a login outlives the stamps before it.       *)
THEOREM SessionsHold == SessionsSpec => []SessionsSound
<1>1. SessionInv => SessionsSound
  <2> SUFFICES ASSUME SessionInv PROVE SessionsSound
    OBVIOUS
  <2>1. OneHatAtATime /\ HatsReturnHome /\ FullMeansOwnPassword
    BY DEF SessionInv, TokensGood, GoodToken, OneHatAtATime, HatsReturnHome, FullMeansOwnPassword
  <2>2. NewLoginsLast
    <3> SUFFICES ASSUME NEW t \in Minted, Outlived(tokens[t]) PROVE tokens[t].iat < second
      BY DEF NewLoginsLast
    <3>1. /\ tokens[t].iat \in Nat /\ second \in Nat
          /\ \A d \in {"voter", "panel"} : account[d].cutoff \in Nat /\ account[d].cutoff <= second
      BY DEF SessionInv, SessionTypes, AccountsKept, Token, Account, Minted
    <3>2. DocOf(tokens[t].role) \in {"voter", "panel"}
      BY DEF DocOf
    <3> QED
      BY <3>1, <3>2 DEF Outlived
  <2> QED
    BY <2>1, <2>2 DEF SessionsSound
<1> QED
  BY <1>1, SessionsInvInit, SessionsInvStep, PTL DEF SessionsSpec

-----------------------------------------------------------------------------
(* A token that was given up (RevocationCache).                                *)

CacheTypes ==
    /\ now \in Nat /\ revoked \in BOOLEAN
    /\ fine \in [Processes -> Nat]
    /\ requests \in [Processes -> [TokenHolders -> Request]]
    /\ left \in [Processes -> Nat]

(* Nothing was asked, and nothing remembered, later than now. *)
NothingAhead ==
    /\ \A p \in Processes, c \in TokenHolders : requests[p][c].asked <= now
    /\ \A p \in Processes : fine[p] <= now + AnswerTTL /\ left[p] <= now

(* Where a revocation ended, it was inserted and is known. *)
EndedKnown ==
    /\ \A p \in Processes : left[p] > 0 => revoked /\ p \in gone
    /\ \A p \in Processes, c \in TokenHolders : requests[p][c].pc = "remember" => revoked

(* What was asked there was asked before, and nobody keeps an earlier answer for long. *)
AskedBefore ==
    \A p \in Processes, c \in TokenHolders : left[p] > 0 => requests[p][c].asked <= left[p]

AnswersAge ==
    \A p, q \in Processes : left[q] > 0 =>
        /\ fine[p] <= left[q] + AnswerTTL
        /\ \A c \in TokenHolders :
              /\ requests[p][c].pc = "looked" /\ ~requests[p][c].found => requests[p][c].asked <= left[q]
              /\ requests[p][c].pc = "admitted" =>
                    requests[p][c].asked < left[q] + AnswerTTL \/ requests[p][c].asked <= left[q]

CacheInv == CacheTypes /\ NothingAhead /\ EndedKnown /\ AskedBefore /\ AnswersAge

LEMMA CacheInvInit == CacheInit => CacheInv
<1> SUFFICES ASSUME CacheInit PROVE CacheInv
  OBVIOUS
<1>1. AnswerTTL \in Nat
  BY CacheAssumption
<1>2. NoRequest \in Request /\ NoRequest.asked = 0 /\ NoRequest.pc = "idle"
  BY DEF NoRequest, Request
<1>3. CacheTypes
  BY <1>2 DEF CacheInit, CacheTypes
<1>4. /\ \A p \in Processes, c \in TokenHolders : requests[p][c] = NoRequest
      /\ \A p \in Processes : fine[p] = 0 /\ left[p] = 0
      /\ now = 1
  BY DEF CacheInit
<1>5. NothingAhead
  BY <1>1, <1>2, <1>4 DEF NothingAhead
<1>6. EndedKnown /\ AskedBefore /\ AnswersAge
  BY <1>2, <1>4 DEF EndedKnown, AskedBefore, AnswersAge
<1> QED
  BY <1>3, <1>5, <1>6 DEF CacheInv

(* What one request may be, with the revocations that ended. *)
Fits(p, r) ==
    /\ r.asked <= now
    /\ left[p] > 0 => r.asked <= left[p]
    /\ \A q \in Processes : left[q] > 0 =>
          /\ r.pc = "looked" /\ ~r.found => r.asked <= left[q]
          /\ r.pc = "admitted" => r.asked < left[q] + AnswerTTL \/ r.asked <= left[q]

LEMMA IdleFits == ASSUME CacheInv, NEW p \in Processes, NEW r, r.asked = 0, r.pc \in {"idle", "revoke"}
                  PROVE  Fits(p, r)
BY DEF CacheInv, CacheTypes, Fits

(* The step of one request that changes nothing but itself. *)
LEMMA RequestMoves ==
    ASSUME CacheInv, NEW p \in Processes, NEW c \in TokenHolders, NEW r \in Request,
           requests' = [requests EXCEPT ![p][c] = r], UNCHANGED <<now, left>>,
           revoked' \in BOOLEAN, revoked => revoked',
           gone \subseteq gone',
           fine' \in [Processes -> Nat],
           \A x \in Processes : fine'[x] = fine[x] \/ (x = p /\ fine'[x] <= r.asked + AnswerTTL
                                                       /\ requests[p][c].pc = "looked" /\ ~requests[p][c].found
                                                       /\ r.asked = requests[p][c].asked),
           r.pc = "remember" => revoked',
           Fits(p, r)
    PROVE  CacheInv'
<1>1. AnswerTTL \in Nat
  BY CacheAssumption
<1>2. /\ requests \in [Processes -> [TokenHolders -> Request]] /\ left \in [Processes -> Nat]
      /\ now \in Nat /\ fine \in [Processes -> Nat]
  BY DEF CacheInv, CacheTypes
<1>3. requests' \in [Processes -> [TokenHolders -> Request]]
  BY <1>2
<1>4. /\ requests'[p][c] = r
      /\ \A x \in Processes, y \in TokenHolders : <<x, y>> # <<p, c>> => requests'[x][y] = requests[x][y]
  BY <1>2
<1>5. CacheTypes'
  BY <1>2, <1>3 DEF CacheTypes
<1>6. r.asked \in Nat
  BY DEF Request
<1>7. \A x \in Processes : fine'[x] <= now + AnswerTTL
  BY <1>1, <1>2, <1>6 DEF CacheInv, NothingAhead, Fits
<1>8. NothingAhead'
  BY <1>2, <1>4, <1>7 DEF CacheInv, NothingAhead, Fits
<1>9. EndedKnown'
  BY <1>4 DEF CacheInv, EndedKnown
<1>10. AskedBefore'
  BY <1>4 DEF CacheInv, AskedBefore, Fits
<1>11. ASSUME NEW x \in Processes, NEW q \in Processes, left[q] > 0
       PROVE  fine'[x] <= left[q] + AnswerTTL
  BY <1>1, <1>2, <1>6, <1>11 DEF CacheInv, AnswersAge, Fits
<1>12. ASSUME NEW x \in Processes, NEW q \in Processes, NEW y \in TokenHolders, left[q] > 0
       PROVE  /\ requests'[x][y].pc = "looked" /\ ~requests'[x][y].found => requests'[x][y].asked <= left[q]
              /\ requests'[x][y].pc = "admitted" =>
                    requests'[x][y].asked < left[q] + AnswerTTL \/ requests'[x][y].asked <= left[q]
  BY <1>4, <1>12 DEF CacheInv, AnswersAge, Fits
<1>13. AnswersAge'
  BY <1>11, <1>12 DEF AnswersAge
<1> QED
  BY <1>5, <1>8, <1>9, <1>10, <1>13 DEF CacheInv

LEMMA CacheInvStep == CacheInv /\ [CacheNext]_cacheVars => CacheInv'
<1> SUFFICES ASSUME CacheInv, [CacheNext]_cacheVars PROVE CacheInv'
  OBVIOUS
<1>1. AnswerTTL \in Nat /\ CacheSeconds \in Nat
  BY CacheAssumption
<1>2. /\ requests \in [Processes -> [TokenHolders -> Request]] /\ left \in [Processes -> Nat]
      /\ now \in Nat /\ fine \in [Processes -> Nat] /\ revoked \in BOOLEAN
  BY DEF CacheInv, CacheTypes
<1>3. NoRequest \in Request /\ NoRequest.asked = 0 /\ NoRequest.pc = "idle"
  BY DEF NoRequest, Request
<1>4. CASE PassSecond
  <2>1. UNCHANGED <<revoked, gone, fine, requests, left>> /\ now' = now + 1
    BY <1>4 DEF PassSecond
  <2>2. \A p \in Processes, c \in TokenHolders : requests[p][c].asked \in Nat
    BY <1>2 DEF Request
  <2>3. NothingAhead'
    BY <1>1, <1>2, <2>1, <2>2 DEF CacheInv, NothingAhead
  <2> QED
    BY <1>2, <2>1, <2>3 DEF CacheInv, CacheTypes, EndedKnown, AskedBefore, AnswersAge
<1>5. ASSUME NEW p \in Processes, NEW c \in TokenHolders,
             \/ TokenArrives(p, c) \/ LookUp(p, c) \/ FoundRevoked(p, c) \/ FoundFine(p, c)
             \/ GoesOn(p, c) \/ InsertRevoked(p, c) \/ RememberRevoked(p, c)
      PROVE  CacheInv'
  <2> DEFINE r == requests[p][c]
  <2>1. /\ r \in Request /\ r.asked \in Nat /\ r.asked <= now /\ left[p] \in Nat
        /\ left[p] > 0 => r.asked <= left[p] /\ p \in gone
        /\ r.pc = "remember" => revoked
    BY <1>2 DEF Request, CacheInv, NothingAhead, AskedBefore, EndedKnown
  <2>2. \A q \in Processes : left[q] > 0 =>
            /\ revoked
            /\ fine[p] <= left[q] + AnswerTTL
            /\ r.pc = "looked" /\ ~r.found => r.asked <= left[q]
            /\ r.pc = "admitted" => r.asked < left[q] + AnswerTTL \/ r.asked <= left[q]
    BY DEF CacheInv, AnswersAge, EndedKnown
  <2>3. CASE TokenArrives(p, c)
    <3> DEFINE n == [NoRequest EXCEPT !.pc = IF fine[p] > now THEN "admitted" ELSE "lookup", !.asked = now]
    <3>1. n \in Request /\ n.asked = now /\ (n.pc = "admitted" => fine[p] > now) /\ n.pc # "remember" /\ n.pc # "looked"
      BY <1>2, <1>3 DEF NoRequest, Request
    <3>2. requests' = [requests EXCEPT ![p][c] = n] /\ UNCHANGED <<now, revoked, gone, fine, left>> /\ p \notin gone
      BY <2>3 DEF TokenArrives
    <3> HIDE DEF n
    <3>3. \A q \in Processes : left[q] > 0 /\ n.pc = "admitted" => n.asked < left[q] + AnswerTTL
      BY <1>1, <1>2, <2>2, <3>1
    <3>4. \A q \in Processes : left[q] > 0 /\ n.pc = "admitted" => n.asked < left[q] + AnswerTTL
      BY <3>3
    <3>5. ~(left[p] > 0) /\ n.asked <= now
      BY <1>2, <2>1, <3>1, <3>2
    <3>6. Fits(p, n)
      BY <3>1, <3>4, <3>5 DEF Fits
    <3> QED
      BY <1>2, <3>1, <3>2, <3>6, RequestMoves
  <2>4. CASE LookUp(p, c)
    <3> DEFINE n == [r EXCEPT !.pc = "looked", !.found = revoked]
    <3>1. n \in Request /\ n.asked = r.asked /\ n.pc = "looked" /\ n.found = revoked
      BY <1>2, <2>1 DEF Request
    <3>2. requests' = [requests EXCEPT ![p][c] = n] /\ UNCHANGED <<now, revoked, gone, fine, left>>
      BY <1>2, <2>4 DEF LookUp
    <3> HIDE DEF n, r
    <3>3. Fits(p, n)
      BY <2>1, <2>2, <3>1 DEF Fits
    <3> QED
      BY <1>2, <3>1, <3>2, <3>3, RequestMoves
  <2>5. CASE FoundRevoked(p, c)
    <3>1. requests' = [requests EXCEPT ![p][c] = NoRequest] /\ UNCHANGED <<now, revoked, fine, left>> /\ gone' = gone \cup {p}
      BY <2>5 DEF FoundRevoked
    <3>2. Fits(p, NoRequest)
      BY <1>3, IdleFits
    <3> QED
      BY <1>2, <1>3, <3>1, <3>2, RequestMoves
  <2>6. CASE FoundFine(p, c)
    <3> DEFINE n == [r EXCEPT !.pc = "admitted"]
    <3>1. n \in Request /\ n.asked = r.asked /\ n.pc = "admitted"
      BY <1>2, <2>1 DEF Request
    <3>2. /\ requests' = [requests EXCEPT ![p][c] = n] /\ UNCHANGED <<now, revoked, gone, left>>
          /\ fine' = [fine EXCEPT ![p] = r.asked + AnswerTTL] /\ r.pc = "looked" /\ ~r.found
      BY <1>2, <2>6 DEF FoundFine, FineUntil
    <3>3. /\ fine' \in [Processes -> Nat]
          /\ \A x \in Processes : fine'[x] = fine[x] \/ (x = p /\ fine'[x] <= n.asked + AnswerTTL)
      BY <1>1, <1>2, <2>1, <3>1, <3>2
    <3>4. n.asked <= now /\ (left[p] > 0 => n.asked <= left[p])
      BY <2>1, <3>1
    <3>5. \A q \in Processes : left[q] > 0 => n.asked <= left[q]
      BY <2>2, <3>1, <3>2
    <3>6. requests[p][c].pc = "looked" /\ ~requests[p][c].found /\ n.asked = requests[p][c].asked /\ n.pc = "admitted"
      BY <3>1, <3>2
    <3> HIDE DEF n, r
    <3>7. Fits(p, n)
      BY <3>1, <3>4, <3>5 DEF Fits
    <3> QED
      BY <1>2, <3>1, <3>2, <3>3, <3>6, <3>7, RequestMoves
  <2>7. CASE GoesOn(p, c)
    <3>1. PICK n \in {NoRequest, [NoRequest EXCEPT !.pc = "revoke"]} : requests' = [requests EXCEPT ![p][c] = n]
      BY <2>7 DEF GoesOn
    <3>2. n \in Request /\ n.asked = 0 /\ n.pc \in {"idle", "revoke"}
      <4> DEFINE n2 == [NoRequest EXCEPT !.pc = "revoke"]
      <4>1. n2 \in Request /\ n2.asked = 0 /\ n2.pc = "revoke"
        BY DEF NoRequest, Request
      <4>2. n = NoRequest \/ n = n2
        BY <3>1
      <4> HIDE DEF n2
      <4> QED
        BY <1>3, <4>1, <4>2
    <3>3. UNCHANGED <<now, revoked, gone, fine, left>>
      BY <2>7 DEF GoesOn
    <3>4. Fits(p, n)
      BY <3>2, IdleFits
    <3>5. n.pc # "remember"
      BY <3>2
    <3> QED
      BY <1>2, <3>1, <3>2, <3>3, <3>4, <3>5, RequestMoves
  <2>8. CASE InsertRevoked(p, c)
    <3>1. CASE revoked' = TRUE /\ requests' = [requests EXCEPT ![p][c].pc = "remember"]
      <4> DEFINE n == [r EXCEPT !.pc = "remember"]
      <4>1. n \in Request /\ n.asked = r.asked /\ n.pc = "remember"
        BY <2>1 DEF Request
      <4>2. requests' = [requests EXCEPT ![p][c] = n] /\ UNCHANGED <<now, gone, fine, left>>
        BY <1>2, <2>8, <3>1 DEF InsertRevoked
      <4> HIDE DEF n, r
      <4>3. revoked' \in BOOLEAN
        BY <3>1
      <4>4. Fits(p, n)
        BY <2>1, <4>1 DEF Fits
      <4> QED
        BY <1>2, <3>1, <4>1, <4>2, <4>3, <4>4, RequestMoves
    <3>2. CASE requests' = [requests EXCEPT ![p][c] = NoRequest] /\ UNCHANGED revoked
      <4>1. UNCHANGED <<now, gone, fine, left>>
        BY <2>8 DEF InsertRevoked
      <4>2. Fits(p, NoRequest)
        BY <1>3, IdleFits
      <4> QED
        BY <1>2, <1>3, <3>2, <4>1, <4>2, RequestMoves
    <3> QED
      BY <2>8, <3>1, <3>2 DEF InsertRevoked
  <2>9. CASE RememberRevoked(p, c)
    <3>1. /\ r.pc = "remember" /\ gone' = gone \cup {p} /\ fine' = [fine EXCEPT ![p] = 0]
          /\ left' = [left EXCEPT ![p] = IF left[p] = 0 THEN now ELSE left[p]]
          /\ requests' = [requests EXCEPT ![p][c] = NoRequest] /\ UNCHANGED <<now, revoked>>
      BY <1>2, <2>9 DEF RememberRevoked, GoneNow
    <3>2. /\ \A x \in Processes, y \in TokenHolders :
                requests'[x][y] = NoRequest \/ requests'[x][y] = requests[x][y]
          /\ requests' \in [Processes -> [TokenHolders -> Request]]
      BY <1>2, <1>3, <3>1
    <3>3. /\ left' \in [Processes -> Nat] /\ fine' \in [Processes -> Nat]
          /\ \A x \in Processes : fine'[x] <= fine[x] /\ (left'[x] = left[x] \/ (x = p /\ left'[x] = now))
          /\ \A x \in Processes : left'[x] > 0 /\ left'[x] = left[x] => left[x] > 0
      BY <1>2, <3>1
    <3>4. \A x \in Processes, y \in TokenHolders : requests[x][y].asked \in Nat /\ requests[x][y].asked <= now
      BY <1>2 DEF CacheInv, NothingAhead, Request
    <3>5. CacheTypes'
      BY <1>2, <3>1, <3>2, <3>3 DEF CacheTypes
    <3>6. \A x \in Processes, y \in TokenHolders : requests'[x][y].asked \in Nat /\ requests'[x][y].asked <= now
      BY <1>2, <1>3, <3>2, <3>4
    <3>7. \A x \in Processes : fine[x] \in Nat /\ fine[x] <= now + AnswerTTL /\ left[x] <= now
      BY <1>2 DEF CacheInv, NothingAhead
    <3>8. NothingAhead'
      BY <1>1, <1>2, <3>1, <3>3, <3>6, <3>7 DEF NothingAhead
    <3>9. EndedKnown'
      BY <1>3, <2>1, <3>1, <3>2, <3>3 DEF CacheInv, EndedKnown
    <3>10. AskedBefore'
      BY <1>2, <1>3, <3>1, <3>2, <3>3, <3>6 DEF CacheInv, AskedBefore
    <3>11. ASSUME NEW x \in Processes, NEW q \in Processes, left'[q] > 0
           PROVE  fine'[x] <= left'[q] + AnswerTTL
      BY <1>1, <1>2, <3>3, <3>7, <3>11 DEF CacheInv, AnswersAge
    <3>12. ASSUME NEW x \in Processes, NEW q \in Processes, NEW y \in TokenHolders, left'[q] > 0
           PROVE  /\ requests'[x][y].pc = "looked" /\ ~requests'[x][y].found => requests'[x][y].asked <= left'[q]
                  /\ requests'[x][y].pc = "admitted" =>
                        requests'[x][y].asked < left'[q] + AnswerTTL \/ requests'[x][y].asked <= left'[q]
      <4>1. CASE left'[q] = left[q]
        BY <1>3, <3>2, <3>3, <3>12, <4>1 DEF CacheInv, AnswersAge
      <4>2. CASE left'[q] = now
        BY <3>6, <4>2
      <4> QED
        BY <3>3, <4>1, <4>2
    <3> QED
      BY <3>5, <3>8, <3>9, <3>10, <3>11, <3>12 DEF CacheInv, AnswersAge
  <2> QED
    BY <1>5, <2>3, <2>4, <2>5, <2>6, <2>7, <2>8, <2>9
<1>6. CASE UNCHANGED cacheVars
  BY <1>6 DEF cacheVars, CacheInv, CacheTypes, NothingAhead, EndedKnown, AskedBefore, AnswersAge
<1> QED
  BY <1>4, <1>5, <1>6 DEF CacheNext

(* A token given up lets nobody in on the process it was given up on, and on    *)
(* the others nobody who asks a TTL later, whatever lookups are under way       *)
(* (_REVOKED_LOCAL, _NOT_REVOKED_UNTIL).                                        *)
THEOREM RevokedStayOut == CacheSpec => []RevokedStaysOut
<1>1. CacheInv => RevokedStaysOut
  <2> SUFFICES ASSUME CacheInv, NEW p \in Processes, NEW q \in Processes, NEW c \in TokenHolders,
                      requests[p][c].pc = "admitted"
               PROVE  /\ left[p] > 0 => requests[p][c].asked <= left[p]
                      /\ left[q] > 0 => requests[p][c].asked < left[q] + AnswerTTL \/ requests[p][c].asked = left[q]
    BY DEF RevokedStaysOut, LogoutIsImmediateHere, LogoutIsSoonEverywhere
  <2>1. AnswerTTL \in Nat /\ left[p] \in Nat /\ left[q] \in Nat /\ requests[p][c].asked \in Nat
    BY CacheAssumption DEF CacheInv, CacheTypes, Request
  <2> QED
    BY <2>1 DEF CacheInv, AskedBefore, AnswersAge
<1> QED
  BY <1>1, CacheInvInit, CacheInvStep, PTL DEF CacheSpec

-----------------------------------------------------------------------------
(* Guesses at a password (LoginLimits).  For each counter: the logins that     *)
(* have guessed and are not counted yet, those that have filled it and are     *)
(* about to lock it, and those past its gate that may still guess.             *)

IsUncounted(r, k) == IF k = "account" THEN r.pc \in {"count", "lock", "countAccount"}
                                      ELSE r.pc = "count" /\ k \in r.from

IsLocking(r, k) == /\ IF k = "account" THEN r.pc = "lockAccount" ELSE r.pc = "lock" /\ k \in r.from
                   /\ LocksAt(r.counted, k)

IsPast(r, k) == IF k = "account" THEN r.pc = "compare"
                                 ELSE r.pc \in {"gate", "compare"} /\ k \in r.from

UncountedLogins(k) == {l \in Logins : IsUncounted(logins[l], k)}
LockingLogins(k)   == {l \in Logins : IsLocking(logins[l], k)}
PastLogins(k)      == {l \in Logins : IsPast(logins[l], k)}

LimitTypes ==
    /\ minute \in Nat
    /\ attempts \in [LimitKeys -> Nat] /\ lockedUntil \in [LimitKeys -> Nat]
    /\ guesses \in [LimitKeys \cup {"all"} -> Nat]
    /\ logins \in [Logins -> Login]
    /\ \A l \in Logins : logins[l].pc # "idle" => \E a \in Addresses : logins[l].from = {a}

KeyInv(k) ==
    /\ guesses[k] <= attempts[k] + Cardinality(UncountedLogins(k))
    /\ Open(k) => guesses[k] <= Limit(k) - 1 + Cardinality(UncountedLogins(k))
                                             + Cardinality(LockingLogins(k))
    /\ guesses[k] + Cardinality(PastLogins(k)) <= Limit(k) - 1 + Cardinality(Logins)

LimitInv == LimitTypes /\ \A k \in LimitKeys : KeyInv(k)

(* The size of a set before and after one element may have moved.               *)
Moved(before, after, was, is) ==
    /\ (was /\ is) \/ (~was /\ ~is) => after = before
    /\ was /\ ~is => after = before - 1
    /\ ~was /\ is => after = before + 1

LoginMoved(k, o, r) ==
    /\ Moved(Cardinality(UncountedLogins(k)), Cardinality(UncountedLogins(k)'), IsUncounted(o, k), IsUncounted(r, k))
    /\ Moved(Cardinality(LockingLogins(k)), Cardinality(LockingLogins(k)'), IsLocking(o, k), IsLocking(r, k))
    /\ Moved(Cardinality(PastLogins(k)), Cardinality(PastLogins(k)'), IsPast(o, k), IsPast(r, k))

LEMMA LimitNumbers ==
    /\ IsFiniteSet(Logins) /\ LockFor \in Nat /\ LockFor > 0
    /\ \A k \in LimitKeys : Limit(k) \in Nat /\ Limit(k) >= 1
BY LimitsAssumption DEF Limit, LimitKeys

LEMMA CardMoves ==
    ASSUME NEW S \in SUBSET Logins, NEW T \in SUBSET Logins, NEW l \in Logins,
           \A x \in Logins \ {l} : x \in S <=> x \in T
    PROVE  Moved(Cardinality(S), Cardinality(T), l \in S, l \in T)
<1>1. IsFiniteSet(S) /\ IsFiniteSet(T)
  BY LimitNumbers, FS_Subset
<1>2. Cardinality(S) \in Nat /\ Cardinality(T) \in Nat
  BY <1>1, FS_CardinalityType
<1>3. CASE l \in S <=> l \in T
  <2>1. S = T
    BY <1>3
  <2> QED
    BY <1>3, <2>1 DEF Moved
<1>4. CASE l \in S /\ l \notin T
  <2>1. T = S \ {l}
    BY <1>4
  <2>2. Cardinality(T) = Cardinality(S) - 1
    BY <1>1, <1>4, <2>1, FS_RemoveElement
  <2> QED
    BY <1>4, <2>2 DEF Moved
<1>5. CASE l \notin S /\ l \in T
  <2>1. T = S \cup {l}
    BY <1>5
  <2>2. Cardinality(T) = Cardinality(S) + 1
    BY <1>1, <1>5, <2>1, FS_AddElement
  <2> QED
    BY <1>5, <2>2 DEF Moved
<1> QED
  BY <1>3, <1>4, <1>5

LEMMA LoginSets ==
    ASSUME NEW k \in LimitKeys
    PROVE  /\ Cardinality(UncountedLogins(k)) \in Nat /\ Cardinality(LockingLogins(k)) \in Nat
           /\ Cardinality(PastLogins(k)) \in Nat /\ Cardinality(PastLogins(k)) <= Cardinality(Logins)
           /\ Cardinality(Logins) \in Nat
<1>1. /\ UncountedLogins(k) \subseteq Logins /\ LockingLogins(k) \subseteq Logins
      /\ PastLogins(k) \subseteq Logins
  BY DEF UncountedLogins, LockingLogins, PastLogins
<1> QED
  BY <1>1, LimitNumbers, FS_Subset, FS_CardinalityType

LEMMA LoginSetsNext ==
    ASSUME NEW k \in LimitKeys
    PROVE  /\ Cardinality(UncountedLogins(k)') \in Nat /\ Cardinality(LockingLogins(k)') \in Nat
           /\ Cardinality(PastLogins(k)') \in Nat /\ Cardinality(PastLogins(k)') <= Cardinality(Logins)
<1>1. /\ UncountedLogins(k)' \subseteq Logins /\ LockingLogins(k)' \subseteq Logins
      /\ PastLogins(k)' \subseteq Logins
  BY DEF UncountedLogins, LockingLogins, PastLogins
<1> QED
  BY <1>1, LimitNumbers, FS_Subset, FS_CardinalityType

(* A login is in at most one of the three. *)
LEMMA RoomForOne ==
    ASSUME NEW k \in LimitKeys, NEW l \in Logins,
           ~IsUncounted(logins[l], k), ~IsLocking(logins[l], k), ~IsPast(logins[l], k)
    PROVE  Cardinality(UncountedLogins(k)) + Cardinality(LockingLogins(k))
               + Cardinality(PastLogins(k)) + 1 <= Cardinality(Logins)
<1> DEFINE U == UncountedLogins(k)
           L == LockingLogins(k)
           P == PastLogins(k)
<1>1. /\ U \subseteq Logins /\ L \subseteq Logins /\ P \subseteq Logins
      /\ l \notin U /\ l \notin L /\ l \notin P
  BY DEF UncountedLogins, LockingLogins, PastLogins
<1>2. U \cap L = {} /\ (U \cup L) \cap P = {}
  BY DEF UncountedLogins, LockingLogins, PastLogins, IsUncounted, IsLocking, IsPast
<1>3. IsFiniteSet(Logins) /\ IsFiniteSet(U) /\ IsFiniteSet(L) /\ IsFiniteSet(P)
  BY <1>1, LimitNumbers, FS_Subset
<1> HIDE DEF U, L, P
<1>4. IsFiniteSet(U \cup L) /\ Cardinality(U \cup L) = Cardinality(U) + Cardinality(L)
  <2>0. Cardinality(U) \in Nat /\ Cardinality(L) \in Nat
    BY <1>3, FS_CardinalityType
  <2>1. Cardinality(U \cap L) = 0
    BY <1>2, FS_EmptySet
  <2>2. Cardinality(U \cup L) = Cardinality(U) + Cardinality(L) - Cardinality(U \cap L)
    BY <1>3, FS_Union
  <2>3. IsFiniteSet(U \cup L)
    BY <1>3, FS_Union
  <2> QED
    BY <2>0, <2>1, <2>2, <2>3
<1>5. /\ IsFiniteSet(U \cup L \cup P)
      /\ Cardinality(U \cup L \cup P) = Cardinality(U) + Cardinality(L) + Cardinality(P)
  <2>0. Cardinality(U) \in Nat /\ Cardinality(L) \in Nat /\ Cardinality(P) \in Nat
    BY <1>3, FS_CardinalityType
  <2>1. Cardinality((U \cup L) \cap P) = 0
    BY <1>2, FS_EmptySet
  <2>2. Cardinality(U \cup L \cup P) = Cardinality(U \cup L) + Cardinality(P) - Cardinality((U \cup L) \cap P)
    BY <1>3, <1>4, FS_Union
  <2>3. IsFiniteSet(U \cup L \cup P)
    BY <1>3, <1>4, FS_Union
  <2> QED
    BY <1>4, <2>0, <2>1, <2>2, <2>3
<1>6. Cardinality((U \cup L \cup P) \cup {l}) = Cardinality(U \cup L \cup P) + 1
  BY <1>1, <1>5, FS_AddElement
<1>7. Cardinality((U \cup L \cup P) \cup {l}) <= Cardinality(Logins)
  BY <1>1, <1>3, FS_Subset
<1> QED
  BY <1>5, <1>6, <1>7 DEF U, L, P

LEMMA LoginMoves ==
    ASSUME logins \in [Logins -> Login], NEW l \in Logins, NEW r, NEW k \in LimitKeys,
           logins' = [logins EXCEPT ![l] = r]
    PROVE  LoginMoved(k, logins[l], r)
<1>1. logins'[l] = r /\ \A x \in Logins \ {l} : logins'[x] = logins[x]
  OBVIOUS
<1>2. Moved(Cardinality(UncountedLogins(k)), Cardinality(UncountedLogins(k)'),
            IsUncounted(logins[l], k), IsUncounted(r, k))
  <2>1. /\ UncountedLogins(k) \in SUBSET Logins /\ UncountedLogins(k)' \in SUBSET Logins
        /\ \A x \in Logins \ {l} : x \in UncountedLogins(k) <=> x \in UncountedLogins(k)'
        /\ l \in UncountedLogins(k) <=> IsUncounted(logins[l], k)
        /\ l \in UncountedLogins(k)' <=> IsUncounted(r, k)
    BY <1>1 DEF UncountedLogins, IsUncounted
  <2>2. Moved(Cardinality(UncountedLogins(k)), Cardinality(UncountedLogins(k)'), l \in UncountedLogins(k), l \in UncountedLogins(k)')
    BY <2>1, CardMoves
  <2> QED
    BY <2>1, <2>2 DEF Moved
<1>3. Moved(Cardinality(LockingLogins(k)), Cardinality(LockingLogins(k)'),
            IsLocking(logins[l], k), IsLocking(r, k))
  <2>1. /\ LockingLogins(k) \in SUBSET Logins /\ LockingLogins(k)' \in SUBSET Logins
        /\ \A x \in Logins \ {l} : x \in LockingLogins(k) <=> x \in LockingLogins(k)'
        /\ l \in LockingLogins(k) <=> IsLocking(logins[l], k)
        /\ l \in LockingLogins(k)' <=> IsLocking(r, k)
    BY <1>1 DEF LockingLogins, IsLocking, LocksAt, Limit
  <2>2. Moved(Cardinality(LockingLogins(k)), Cardinality(LockingLogins(k)'), l \in LockingLogins(k), l \in LockingLogins(k)')
    BY <2>1, CardMoves
  <2> QED
    BY <2>1, <2>2 DEF Moved
<1>4. Moved(Cardinality(PastLogins(k)), Cardinality(PastLogins(k)'),
            IsPast(logins[l], k), IsPast(r, k))
  <2>1. /\ PastLogins(k) \in SUBSET Logins /\ PastLogins(k)' \in SUBSET Logins
        /\ \A x \in Logins \ {l} : x \in PastLogins(k) <=> x \in PastLogins(k)'
        /\ l \in PastLogins(k) <=> IsPast(logins[l], k)
        /\ l \in PastLogins(k)' <=> IsPast(r, k)
    BY <1>1 DEF PastLogins, IsPast
  <2>2. Moved(Cardinality(PastLogins(k)), Cardinality(PastLogins(k)'), l \in PastLogins(k), l \in PastLogins(k)')
    BY <2>1, CardMoves
  <2> QED
    BY <2>1, <2>2 DEF Moved
<1> QED
  BY <1>2, <1>3, <1>4 DEF LoginMoved

-----------------------------------------------------------------------------
(* What a step of one login does to one counter. *)

LEMMA KeyQuiet ==
    ASSUME LimitInv, NEW l \in Logins, NEW r, NEW k \in LimitKeys,
           logins' = [logins EXCEPT ![l] = r],
           guesses'[k] = guesses[k], attempts'[k] = attempts[k], Open(k)' => Open(k),
           IsUncounted(logins[l], k) => IsUncounted(r, k),
           IsLocking(logins[l], k) => IsLocking(r, k),
           IsPast(r, k) => IsPast(logins[l], k)
    PROVE  KeyInv(k)'
<1>1. guesses[k] \in Nat /\ attempts[k] \in Nat /\ Limit(k) \in Nat /\ logins \in [Logins -> Login]
  BY LimitNumbers DEF LimitInv, LimitTypes
<1>2. /\ Cardinality(UncountedLogins(k)') >= Cardinality(UncountedLogins(k))
      /\ Cardinality(LockingLogins(k)') >= Cardinality(LockingLogins(k))
      /\ Cardinality(PastLogins(k)') <= Cardinality(PastLogins(k))
  <2>1. LoginMoved(k, logins[l], r)
    BY <1>1, LoginMoves
  <2> QED
    BY <2>1, LoginSets DEF LoginMoved, Moved
<1> QED
  BY <1>1, <1>2, LoginSets, LoginSetsNext DEF LimitInv, KeyInv, Limit

LEMMA KeyEntered ==
    ASSUME LimitInv, NEW l \in Logins, NEW r, NEW k \in LimitKeys,
           logins' = [logins EXCEPT ![l] = r],
           guesses'[k] = guesses[k], attempts'[k] = attempts[k], Open(k),
           ~IsUncounted(logins[l], k), ~IsLocking(logins[l], k), ~IsPast(logins[l], k)
    PROVE  KeyInv(k)'
<1>1. guesses[k] \in Nat /\ attempts[k] \in Nat /\ Limit(k) \in Nat /\ logins \in [Logins -> Login]
  BY LimitNumbers DEF LimitInv, LimitTypes
<1>2. /\ Cardinality(UncountedLogins(k)') >= Cardinality(UncountedLogins(k))
      /\ Cardinality(LockingLogins(k)') >= Cardinality(LockingLogins(k))
      /\ Cardinality(PastLogins(k)') <= Cardinality(PastLogins(k)) + 1
  <2>1. LoginMoved(k, logins[l], r)
    BY <1>1, LoginMoves
  <2> QED
    BY <2>1, LoginSets DEF LoginMoved, Moved
<1>3. guesses[k] + Cardinality(PastLogins(k)) + 1 <= Limit(k) - 1 + Cardinality(Logins)
  BY <1>1, LoginSets, RoomForOne DEF LimitInv, KeyInv
<1> QED
  BY <1>1, <1>2, <1>3, LoginSets, LoginSetsNext DEF LimitInv, KeyInv, Limit

LEMMA KeyGuessed ==
    ASSUME LimitInv, NEW l \in Logins, NEW r, NEW k \in LimitKeys,
           logins' = [logins EXCEPT ![l] = r],
           guesses'[k] = guesses[k] + 1, attempts'[k] = attempts[k], Open(k)' => Open(k),
           ~IsUncounted(logins[l], k), IsUncounted(r, k), ~IsLocking(logins[l], k),
           IsPast(logins[l], k), ~IsPast(r, k)
    PROVE  KeyInv(k)'
<1>1. guesses[k] \in Nat /\ attempts[k] \in Nat /\ Limit(k) \in Nat /\ logins \in [Logins -> Login]
  BY LimitNumbers DEF LimitInv, LimitTypes
<1>2. /\ Cardinality(UncountedLogins(k)') = Cardinality(UncountedLogins(k)) + 1
      /\ Cardinality(LockingLogins(k)') >= Cardinality(LockingLogins(k))
      /\ Cardinality(PastLogins(k)') = Cardinality(PastLogins(k)) - 1
  <2>1. LoginMoved(k, logins[l], r)
    BY <1>1, LoginMoves
  <2> QED
    BY <2>1, LoginSets DEF LoginMoved, Moved
<1> QED
  BY <1>1, <1>2, LoginSets, LoginSetsNext DEF LimitInv, KeyInv, Limit

LEMMA KeyCleared ==
    ASSUME NEW k \in LimitKeys, guesses'[k] = 0, attempts'[k] \in Nat
    PROVE  KeyInv(k)'
<1>1. Limit(k) \in Nat /\ Limit(k) >= 1
  BY LimitNumbers
<1> QED
  BY <1>1, LoginSets, LoginSetsNext DEF KeyInv, Limit

LEMMA KeyCounted ==
    ASSUME LimitInv, NEW l \in Logins, NEW r, NEW k \in LimitKeys,
           logins' = [logins EXCEPT ![l] = r],
           guesses'[k] = guesses[k], attempts'[k] = attempts[k] + 1, Open(k)' => Open(k),
           IsUncounted(logins[l], k), ~IsUncounted(r, k), ~IsLocking(logins[l], k),
           attempts[k] + 1 >= Limit(k) => IsLocking(r, k), ~IsPast(r, k)
    PROVE  KeyInv(k)'
<1>1. guesses[k] \in Nat /\ attempts[k] \in Nat /\ Limit(k) \in Nat /\ logins \in [Logins -> Login]
  BY LimitNumbers DEF LimitInv, LimitTypes
<1>2. /\ Cardinality(UncountedLogins(k)') = Cardinality(UncountedLogins(k)) - 1
      /\ Cardinality(LockingLogins(k)') >= Cardinality(LockingLogins(k))
      /\ attempts[k] + 1 >= Limit(k) => Cardinality(LockingLogins(k)') = Cardinality(LockingLogins(k)) + 1
      /\ Cardinality(PastLogins(k)') <= Cardinality(PastLogins(k))
  <2>1. LoginMoved(k, logins[l], r)
    BY <1>1, LoginMoves
  <2> QED
    BY <2>1, LoginSets DEF LoginMoved, Moved
<1> QED
  BY <1>1, <1>2, LoginSets, LoginSetsNext DEF LimitInv, KeyInv, Limit

LEMMA KeyLocked ==
    ASSUME LimitInv, NEW l \in Logins, NEW r, NEW k \in LimitKeys,
           logins' = [logins EXCEPT ![l] = r],
           guesses'[k] = guesses[k], attempts'[k] = attempts[k],
           Open(k)' => Open(k) /\ (~IsLocking(logins[l], k) \/ attempts[k] = 0),
           ~IsUncounted(logins[l], k), ~IsUncounted(r, k), ~IsPast(r, k)
    PROVE  KeyInv(k)'
<1>1. guesses[k] \in Nat /\ attempts[k] \in Nat /\ Limit(k) \in Nat /\ Limit(k) >= 1 /\ logins \in [Logins -> Login]
  BY LimitNumbers DEF LimitInv, LimitTypes
<1>2. /\ Cardinality(UncountedLogins(k)') = Cardinality(UncountedLogins(k))
      /\ ~IsLocking(logins[l], k) => Cardinality(LockingLogins(k)') >= Cardinality(LockingLogins(k))
      /\ Cardinality(PastLogins(k)') <= Cardinality(PastLogins(k))
  <2>1. LoginMoved(k, logins[l], r)
    BY <1>1, LoginMoves
  <2> QED
    BY <2>1, LoginSets DEF LoginMoved, Moved
<1> QED
  BY <1>1, <1>2, LoginSets, LoginSetsNext DEF LimitInv, KeyInv, Limit

-----------------------------------------------------------------------------

LEMMA LimitsInvInit == LimitsInit => LimitInv
<1> SUFFICES ASSUME LimitsInit PROVE LimitInv
  OBVIOUS
<1>1. NoLogin \in Login
  BY DEF NoLogin, Login
<1>2. LimitTypes
  BY <1>1 DEF LimitsInit, LimitTypes, NoLogin
<1>3. ASSUME NEW k \in LimitKeys PROVE KeyInv(k)
  <2>1. guesses[k] = 0 /\ attempts[k] = 0
    BY DEF LimitsInit
  <2>2. Limit(k) \in Nat /\ Limit(k) >= 1
    BY LimitNumbers
  <2> QED
    BY <2>1, <2>2, LoginSets DEF KeyInv
<1> QED
  BY <1>2, <1>3 DEF LimitInv

(* The keys a login touches: its address and the account. *)
LEMMA LoginFrom ==
    ASSUME LimitTypes, NEW l \in Logins, logins[l].pc # "idle"
    PROVE  \E a \in Addresses : logins[l].from = {a} /\ a # "account" /\ a # "all" /\ a \in LimitKeys
BY LimitsAssumption DEF LimitTypes, LimitKeys

LEMMA TypesMove ==
    ASSUME LimitTypes, NEW l \in Logins, NEW r \in Login, logins' = [logins EXCEPT ![l] = r],
           r.pc # "idle" => \E a \in Addresses : r.from = {a},
           UNCHANGED minute,
           attempts' \in [LimitKeys -> Nat], lockedUntil' \in [LimitKeys -> Nat],
           guesses' \in [LimitKeys \cup {"all"} -> Nat]
    PROVE  LimitTypes'
<1>1. logins \in [Logins -> Login]
  BY DEF LimitTypes
<1>2. logins' \in [Logins -> Login]
  BY <1>1
<1>3. \A x \in Logins : logins'[x] = IF x = l THEN r ELSE logins[x]
  BY <1>1
<1> QED
  BY <1>2, <1>3 DEF LimitTypes

LEMMA LimitsInvStep == LimitInv /\ [LimitsNext]_limitVars => LimitInv'
<1> SUFFICES ASSUME LimitInv, [LimitsNext]_limitVars PROVE LimitInv'
  OBVIOUS
<1>1. /\ minute \in Nat /\ LimitTypes
      /\ attempts \in [LimitKeys -> Nat] /\ lockedUntil \in [LimitKeys -> Nat]
      /\ guesses \in [LimitKeys \cup {"all"} -> Nat]
      /\ logins \in [Logins -> Login]
  BY DEF LimitInv, LimitTypes
<1>2. /\ "account" \in LimitKeys /\ Addresses \subseteq LimitKeys
      /\ "account" \notin Addresses /\ "all" \notin LimitKeys
  BY LimitsAssumption DEF LimitKeys
<1>3. NoLogin \in Login /\ NoLogin.pc = "idle" /\ NoLogin.from = {}
  BY DEF NoLogin, Login
<1>4. CASE NextMinute
  <2>1. /\ UNCHANGED <<attempts, lockedUntil, logins>> /\ minute' = minute + 1
        /\ guesses' = [k \in LimitKeys \cup {"all"} |-> IF k = "all" THEN guesses[k] ELSE 0]
    BY <1>1, <1>4 DEF NextMinute
  <2>2. guesses' \in [LimitKeys \cup {"all"} -> Nat]
    BY <1>1, <2>1
  <2>3. LimitTypes'
    BY <1>1, <2>1, <2>2 DEF LimitTypes
  <2>4. ASSUME NEW k \in LimitKeys PROVE KeyInv(k)'
    <3>1. guesses'[k] = 0 /\ attempts'[k] \in Nat
      BY <1>1, <1>2, <2>1
    <3> QED
      BY <3>1, KeyCleared
  <2> QED
    BY <2>3, <2>4 DEF LimitInv
<1>5. ASSUME NEW l \in Logins, NEW a \in Addresses, GuessPassword(l, a)
      PROVE  LimitInv'
  <2> DEFINE r == [NoLogin EXCEPT !.pc = "gate", !.from = {a}]
  <2>1. /\ logins' = [logins EXCEPT ![l] = r] /\ UNCHANGED <<minute, attempts, lockedUntil, guesses>>
        /\ Open(a) /\ logins[l].pc = "idle"
    BY <1>5 DEF GuessPassword
  <2>2. r \in Login /\ r.pc = "gate" /\ r.from = {a}
    BY DEF NoLogin, Login
  <2> HIDE DEF r
  <2>3. LimitTypes'
    BY <1>1, <2>1, <2>2, TypesMove
  <2>4. ASSUME NEW k \in LimitKeys PROVE KeyInv(k)'
    <3>1. ~IsUncounted(logins[l], k) /\ ~IsLocking(logins[l], k) /\ ~IsPast(logins[l], k)
      BY <2>1 DEF IsUncounted, IsLocking, IsPast
    <3>2. CASE k = a
      BY <2>1, <3>1, <3>2, KeyEntered
    <3>3. CASE k # a
      <4>1. ~IsPast(r, k)
        BY <2>2, <3>3 DEF IsPast
      <4> QED
        BY <2>1, <3>1, <4>1, KeyQuiet DEF Open
    <3> QED
      BY <3>2, <3>3
  <2> QED
    BY <2>3, <2>4 DEF LimitInv
<1>6. ASSUME NEW l \in Logins, PassGate(l)
      PROVE  LimitInv'
  <2> DEFINE o == logins[l]
             r == IF Open("account") THEN [o EXCEPT !.pc = "compare"] ELSE NoLogin
  <2>1. /\ logins' = [logins EXCEPT ![l] = r] /\ UNCHANGED <<minute, attempts, lockedUntil, guesses>>
        /\ o.pc = "gate"
    BY <1>1, <1>6 DEF PassGate, Admitted
  <2>2. o \in Login /\ \E a \in Addresses : o.from = {a}
    BY <1>1, <2>1 DEF LimitTypes
  <2>3. /\ r \in Login /\ (r.pc = "compare" \/ r.pc = "idle")
        /\ r.pc = "compare" => r.from = o.from /\ Open("account")
    BY <1>3, <2>2 DEF Login
  <2> HIDE DEF r, o
  <2>4. r.pc # "idle" => \E a \in Addresses : r.from = {a}
    BY <2>2, <2>3
  <2>5. LimitTypes'
    BY <1>1, <2>1, <2>3, <2>4, TypesMove
  <2>6. ASSUME NEW k \in LimitKeys PROVE KeyInv(k)'
    <3>1. ~IsUncounted(o, k) /\ ~IsLocking(o, k)
      BY <2>1 DEF IsUncounted, IsLocking
    <3>2. CASE k = "account" /\ r.pc = "compare"
      <4>1. ~IsPast(o, k) /\ Open(k)
        BY <2>1, <2>3, <3>2 DEF IsPast
      <4> QED
        BY <2>1, <3>1, <4>1, KeyEntered DEF o
    <3>3. CASE ~(k = "account" /\ r.pc = "compare")
      <4>1. IsPast(r, k) => IsPast(o, k)
        BY <2>1, <2>3, <3>3 DEF IsPast
      <4> QED
        BY <2>1, <3>1, <4>1, KeyQuiet DEF Open, o
    <3> QED
      BY <3>2, <3>3
  <2> QED
    BY <2>5, <2>6 DEF LimitInv
<1>7. ASSUME NEW l \in Logins, WrongPassword(l)
      PROVE  LimitInv'
  <2> DEFINE o == logins[l]
             r == [o EXCEPT !.pc = "count"]
  <2>1. /\ logins' = [logins EXCEPT ![l] = r] /\ UNCHANGED <<minute, attempts, lockedUntil>>
        /\ o.pc = "compare"
        /\ guesses' = [k \in LimitKeys \cup {"all"} |->
                          guesses[k] + (IF k \in o.from \cup {"account", "all"} THEN 1 ELSE 0)]
    BY <1>1, <1>7 DEF WrongPassword
  <2>2. o \in Login /\ \E a \in Addresses : o.from = {a}
    BY <1>1, <2>1 DEF LimitTypes
  <2>3. r \in Login /\ r.pc = "count" /\ r.from = o.from
    BY <2>2 DEF Login
  <2>4. guesses' \in [LimitKeys \cup {"all"} -> Nat]
    BY <1>1, <2>1
  <2> HIDE DEF r, o
  <2>5. LimitTypes'
    BY <1>1, <2>1, <2>2, <2>3, <2>4, TypesMove
  <2>6. ASSUME NEW k \in LimitKeys PROVE KeyInv(k)'
    <3>1. ~IsUncounted(o, k) /\ ~IsLocking(o, k) /\ ~IsPast(r, k)
      BY <2>1, <2>3 DEF IsUncounted, IsLocking, IsPast
    <3>2. CASE k \in o.from \cup {"account"}
      <4>1. guesses'[k] = guesses[k] + 1
        BY <2>1, <3>2
      <4>2. IsPast(o, k) /\ IsUncounted(r, k)
        BY <2>1, <2>3, <3>2 DEF IsPast, IsUncounted
      <4> QED
        BY <2>1, <3>1, <4>1, <4>2, KeyGuessed DEF Open, o
    <3>3. CASE k \notin o.from \cup {"account"}
      <4>1. guesses'[k] = guesses[k]
        BY <1>1, <1>2, <2>1, <3>3
      <4> QED
        BY <2>1, <3>1, <4>1, KeyQuiet DEF Open, o
    <3> QED
      BY <3>2, <3>3
  <2> QED
    BY <2>5, <2>6 DEF LimitInv
<1>8. ASSUME NEW l \in Logins, RightPassword(l)
      PROVE  LimitInv'
  <2> DEFINE o == logins[l]
             r == [o EXCEPT !.pc = "clear"]
  <2>1. /\ logins' = [logins EXCEPT ![l] = r] /\ UNCHANGED <<minute, attempts, lockedUntil, guesses>>
        /\ o.pc = "compare"
    BY <1>1, <1>8 DEF RightPassword
  <2>2. o \in Login /\ \E a \in Addresses : o.from = {a}
    BY <1>1, <2>1 DEF LimitTypes
  <2>3. r \in Login /\ r.pc = "clear" /\ r.from = o.from
    BY <2>2 DEF Login
  <2> HIDE DEF r, o
  <2>4. LimitTypes'
    BY <1>1, <2>1, <2>2, <2>3, TypesMove
  <2>5. ASSUME NEW k \in LimitKeys PROVE KeyInv(k)'
    <3>1. ~IsUncounted(o, k) /\ ~IsLocking(o, k) /\ ~IsPast(r, k)
      BY <2>1, <2>3 DEF IsUncounted, IsLocking, IsPast
    <3> QED
      BY <2>1, <3>1, KeyQuiet DEF Open, o
  <2> QED
    BY <2>4, <2>5 DEF LimitInv
<1>9. ASSUME NEW l \in Logins, ClearAttempts(l)
      PROVE  LimitInv'
  <2> DEFINE o == logins[l]
             cleared == o.from \cup {"account"}
  <2>1. /\ logins' = [logins EXCEPT ![l] = NoLogin] /\ UNCHANGED minute
        /\ o.pc = "clear"
        /\ attempts' = [k \in LimitKeys |-> IF k \in cleared THEN 0 ELSE attempts[k]]
        /\ lockedUntil' = [k \in LimitKeys |-> IF k \in cleared THEN 0 ELSE lockedUntil[k]]
        /\ guesses' = [k \in LimitKeys \cup {"all"} |-> IF k \in cleared THEN 0 ELSE guesses[k]]
    BY <1>1, <1>9 DEF ClearAttempts
  <2>2. /\ guesses' \in [LimitKeys \cup {"all"} -> Nat] /\ attempts' \in [LimitKeys -> Nat]
        /\ lockedUntil' \in [LimitKeys -> Nat]
    BY <1>1, <2>1
  <2>3. LimitTypes'
    BY <1>1, <1>3, <2>1, <2>2, TypesMove
  <2>4. ASSUME NEW k \in LimitKeys PROVE KeyInv(k)'
    <3>1. CASE k \in cleared
      <4>1. guesses'[k] = 0 /\ attempts'[k] \in Nat
        BY <1>1, <2>1, <2>2, <3>1
      <4> QED
        BY <4>1, KeyCleared
    <3>2. CASE k \notin cleared
      <4>1. guesses'[k] = guesses[k] /\ attempts'[k] = attempts[k] /\ lockedUntil'[k] = lockedUntil[k]
        BY <1>1, <2>1, <3>2
      <4>2. ~IsUncounted(o, k) /\ ~IsLocking(o, k) /\ ~IsPast(NoLogin, k)
        BY <1>3, <2>1 DEF IsUncounted, IsLocking, IsPast
      <4> QED
        BY <2>1, <4>1, <4>2, KeyQuiet DEF Open
    <3> QED
      BY <3>1, <3>2
  <2> QED
    BY <2>3, <2>4 DEF LimitInv
<1>10. ASSUME NEW l \in Logins, NEW k \in LimitKeys, NEW before, NEW after,
              CountFailure(l, k, before, after),
              \/ k \in logins[l].from /\ before = "count" /\ after = "lock"
              \/ k = "account" /\ before = "countAccount" /\ after = "lockAccount"
       PROVE  LimitInv'
  <2> DEFINE o == logins[l]
             r == [o EXCEPT !.pc = after, !.counted = attempts[k] + 1]
  <2>1. /\ logins' = [logins EXCEPT ![l] = r] /\ UNCHANGED <<minute, lockedUntil, guesses>>
        /\ o.pc = before
        /\ attempts' = [attempts EXCEPT ![k] = attempts[k] + 1]
    BY <1>1, <1>10 DEF CountFailure
  <2>2. o \in Login /\ \E a \in Addresses : o.from = {a}
    BY <1>1, <1>10, <2>1 DEF LimitTypes
  <2>3. attempts[k] \in Nat
    BY <1>1
  <2>4. r \in Login /\ r.pc = after /\ r.from = o.from /\ r.counted = attempts[k] + 1
    <3>1. attempts[k] + 1 \in Nat
      BY <2>3
    <3>2. after \in {"lock", "lockAccount"}
      BY <1>10
    <3> QED
      BY <2>2, <3>1, <3>2 DEF Login
  <2>5. attempts' \in [LimitKeys -> Nat]
    BY <1>1, <2>1, <2>3
  <2> HIDE DEF r
  <2>6. LimitTypes'
    BY <1>1, <2>1, <2>2, <2>4, <2>5, TypesMove
  <2>7. ASSUME NEW j \in LimitKeys PROVE KeyInv(j)'
    <3>1. CASE j = k
      <4>1. IsUncounted(o, j) /\ ~IsUncounted(r, j) /\ ~IsLocking(o, j) /\ ~IsPast(r, j)
        BY <1>2, <1>10, <2>1, <2>2, <2>4, <3>1 DEF IsUncounted, IsLocking, IsPast
      <4>2. attempts[j] + 1 >= Limit(j) => IsLocking(r, j)
        BY <1>2, <1>10, <2>2, <2>4, <3>1 DEF IsLocking, LocksAt
      <4>3. attempts'[j] = attempts[j] + 1
        BY <1>1, <2>1, <3>1
      <4> QED
        BY <2>1, <4>1, <4>2, <4>3, KeyCounted DEF Open
    <3>2. CASE j # k
      <4>1. IsUncounted(o, j) => IsUncounted(r, j)
        BY <1>2, <1>10, <2>1, <2>2, <2>4, <3>2 DEF IsUncounted
      <4>2. ~IsLocking(o, j) /\ ~IsPast(r, j)
        BY <1>10, <2>1, <2>4 DEF IsLocking, IsPast
      <4>3. attempts'[j] = attempts[j]
        BY <1>1, <2>1, <3>2
      <4> QED
        BY <2>1, <4>1, <4>2, <4>3, KeyQuiet DEF Open
    <3> QED
      BY <3>1, <3>2
  <2> QED
    BY <2>6, <2>7 DEF LimitInv
<1>11. ASSUME NEW l \in Logins, NEW k \in LimitKeys, NEW before, NEW after,
              LockIfDue(l, k, before, after),
              \/ k \in logins[l].from /\ before = "lock" /\ after = "countAccount"
              \/ k = "account" /\ before = "lockAccount" /\ after = "idle"
       PROVE  LimitInv'
  <2> DEFINE o == logins[l]
             r == IF after = "idle" THEN NoLogin ELSE [o EXCEPT !.pc = after]
  <2>1. /\ logins' = [logins EXCEPT ![l] = r] /\ UNCHANGED <<minute, attempts, guesses>>
        /\ o.pc = before
        /\ lockedUntil' = IF LocksAt(o.counted, k) /\ attempts[k] > 0
                          THEN [lockedUntil EXCEPT ![k] = minute + LockFor] ELSE lockedUntil
    BY <1>1, <1>11 DEF LockIfDue
  <2>2. o \in Login /\ \E a \in Addresses : o.from = {a}
    BY <1>1, <1>11, <2>1 DEF LimitTypes
  <2>3. r \in Login /\ r.pc = after /\ (after # "idle" => r.from = o.from)
    BY <1>3, <1>11, <2>2 DEF Login
  <2>4. lockedUntil' \in [LimitKeys -> Nat]
    BY <1>1, <2>1, LimitNumbers
  <2> HIDE DEF r
  <2>5. LimitTypes'
    BY <1>1, <2>1, <2>2, <2>3, <2>4, TypesMove
  <2>6. ASSUME NEW j \in LimitKeys PROVE KeyInv(j)'
    <3>1. CASE j = k
      <4>1. ~IsUncounted(o, j) /\ ~IsUncounted(r, j) /\ ~IsPast(r, j)
        BY <1>2, <1>11, <2>1, <2>2, <2>3, <3>1 DEF IsUncounted, IsPast
      <4>2. IsLocking(o, j) => LocksAt(o.counted, k)
        BY <3>1 DEF IsLocking
      <4>3. CASE LocksAt(o.counted, k) /\ attempts[k] > 0
        <5>1. lockedUntil'[j] = minute + LockFor
          BY <1>1, <2>1, <3>1, <4>3
        <5>2. ~Open(j)'
          BY <1>1, <2>1, <5>1, LimitNumbers DEF Open
        <5> QED
          BY <2>1, <4>1, <5>2, KeyLocked
      <4>4. CASE ~(LocksAt(o.counted, k) /\ attempts[k] > 0)
        <5>1. lockedUntil' = lockedUntil
          BY <2>1, <4>4
        <5>2. ~IsLocking(o, j) \/ attempts[j] = 0
          BY <1>1, <3>1, <4>2, <4>4
        <5> QED
          BY <2>1, <4>1, <5>1, <5>2, KeyLocked DEF Open
      <4> QED
        BY <4>3, <4>4
    <3>2. CASE j # k
      <4>1. IsUncounted(o, j) => IsUncounted(r, j)
        BY <1>2, <1>11, <2>1, <2>2, <2>3, <3>2 DEF IsUncounted
      <4>2. ~IsLocking(o, j) /\ ~IsPast(r, j)
        BY <1>2, <1>11, <2>1, <2>2, <2>3, <3>2 DEF IsLocking, IsPast
      <4>3. lockedUntil'[j] = lockedUntil[j]
        BY <1>1, <2>1, <3>2
      <4> QED
        BY <2>1, <4>1, <4>2, <4>3, KeyQuiet DEF Open
    <3> QED
      BY <3>1, <3>2
  <2> QED
    BY <2>5, <2>6 DEF LimitInv
<1>12. ASSUME NEW l \in Logins, RecordFailure(l)
       PROVE  LimitInv'
  <2>1. \A a \in logins[l].from : a \in LimitKeys
    BY <1>1, <1>2 DEF Login
  <2> QED
    BY <1>2, <1>10, <1>11, <1>12, <2>1 DEF RecordFailure
<1>13. CASE UNCHANGED limitVars
  BY <1>13 DEF limitVars, LimitInv, LimitTypes, KeyInv, Open, UncountedLogins, LockingLogins, PastLogins,
               IsUncounted, IsLocking, IsPast, Limit, LocksAt
<1> QED
  BY <1>4, <1>5, <1>6, <1>7, <1>8, <1>9, <1>12, <1>13 DEF LimitsNext

(* Between two moves of the clock and since the owner last logged in, an account *)
(* is guessed at no more often than its limit and the logins under way at once,  *)
(* an address likewise, and each failure is counted (record_failed_login).       *)
THEOREM LimitsHold == LimitsSpec => []LimitsSound
<1>1. LimitInv => LimitsSound
  <2> SUFFICES ASSUME LimitInv, NEW k \in LimitKeys
               PROVE  /\ guesses[k] < Limit(k) + Cardinality(Logins)
                      /\ guesses[k] <= attempts[k] + Cardinality({l \in Logins : logins[l].pc # "idle"})
    BY DEF LimitsSound, GuessesBounded, FailuresCounted
  <2>1. guesses[k] \in Nat /\ attempts[k] \in Nat /\ Limit(k) \in Nat
    BY LimitNumbers DEF LimitInv, LimitTypes
  <2>2. UncountedLogins(k) \subseteq {l \in Logins : logins[l].pc # "idle"}
    BY DEF UncountedLogins, IsUncounted
  <2>3. /\ IsFiniteSet({l \in Logins : logins[l].pc # "idle"})
    BY LimitNumbers, FS_Subset
  <2>4. /\ Cardinality(UncountedLogins(k)) <= Cardinality({l \in Logins : logins[l].pc # "idle"})
        /\ Cardinality({l \in Logins : logins[l].pc # "idle"}) \in Nat
    BY <2>2, <2>3, FS_Subset, FS_CardinalityType
  <2> QED
    BY <2>1, <2>4, LoginSets DEF LimitInv, KeyInv
<1> QED
  BY <1>1, LimitsInvInit, LimitsInvStep, PTL DEF LimitsSpec

-----------------------------------------------------------------------------
(* Corrections and removals (ApplicationEdits).                                *)

(* A history of changes that ends at an id.                                    *)
LeadsTo(chain, id) ==
    /\ \A i \in 1 .. Len(chain) - 1 : chain[i][2] = chain[i + 1][1]
    /\ chain # <<>> => chain[Len(chain)][2] = id

Seen == [chain : Seq(Ids \X Ids), corrections : Nat, decisions : Nat, removals : Nat, votes : Nat]

EditInv ==
    /\ app \in App
    /\ seen \in Seen
    /\ \A e \in Editors : edits[e].pc # "idle" => edits[e].read \in App /\ edits[e].want \in App
    /\ DOMAIN edits = Editors
    /\ LeadsTo(seen.chain, app.id)
    /\ seen.removals <= IF app.status = "approved" THEN 0 ELSE 1

LEMMA EditsInvInit == EditsInit => EditInv
<1> SUFFICES ASSUME EditsInit PROVE EditInv
  OBVIOUS
<1>1. app \in App
  BY DEF EditsInit, App
<1>2. seen \in Seen /\ seen.chain = <<>> /\ seen.removals = 0
  BY DEF EditsInit, Seen
<1>3. DOMAIN edits = Editors /\ \A e \in Editors : edits[e].pc = "idle"
  BY DEF EditsInit, NoEdit
<1> QED
  BY <1>1, <1>2, <1>3 DEF EditInv, LeadsTo

(* The chain and the one removal survive a step that leaves both alone. *)
LEMMA OthersKeepEdits ==
    ASSUME EditInv, UNCHANGED <<app, edits>>,
           seen' \in Seen,
           seen'.chain = seen.chain, seen'.removals = seen.removals
    PROVE  EditInv'
BY DEF EditInv, LeadsTo

(* A step of one edit before or after its write. *)
LEMMA EditGoesOn ==
    ASSUME EditInv, NEW e \in Editors, NEW d, edits' = [edits EXCEPT ![e] = d],
           d.pc # "idle" => d.read \in App /\ d.want \in App,
           UNCHANGED app,
           seen' \in Seen,
           seen'.chain = seen.chain, seen'.removals = seen.removals
    PROVE  EditInv'
<1>1. /\ DOMAIN edits' = Editors
      /\ \A x \in Editors : edits'[x] = IF x = e THEN d ELSE edits[x]
  BY DEF EditInv
<1>2. \A x \in Editors : edits'[x].pc # "idle" => edits'[x].read \in App /\ edits'[x].want \in App
  BY <1>1 DEF EditInv
<1> QED
  BY <1>1, <1>2 DEF EditInv, LeadsTo

(* One more change, from where the history stands.                              *)
LEMMA Extended ==
    ASSUME NEW chain \in Seq(Ids \X Ids), NEW from \in Ids, NEW to \in Ids, LeadsTo(chain, from)
    PROVE  /\ Append(chain, <<from, to>>) \in Seq(Ids \X Ids)
           /\ LeadsTo(Append(chain, <<from, to>>), to)
<1> DEFINE longer == Append(chain, <<from, to>>)
<1>1. <<from, to>> \in Ids \X Ids
  OBVIOUS
<1>2. longer \in Seq(Ids \X Ids)
  BY <1>1
<1>3. Len(chain) \in Nat /\ Len(longer) = Len(chain) + 1
  BY <1>1
<1>4. longer[Len(longer)] = <<from, to>>
  BY <1>1, <1>3
<1>5. \A i \in 1 .. Len(chain) : longer[i] = chain[i]
  BY <1>1, <1>3
<1>6. ASSUME NEW i \in 1 .. Len(longer) - 1
      PROVE  longer[i][2] = longer[i + 1][1]
  <2>1. CASE i = Len(chain)
    <3>1. chain # <<>> /\ longer[i] = chain[Len(chain)]
      BY <1>3, <1>5, <2>1
    <3>2. longer[i + 1] = <<from, to>>
      BY <1>3, <1>4, <2>1
    <3> QED
      BY <3>1, <3>2 DEF LeadsTo
  <2>2. CASE i # Len(chain)
    <3>1. i \in 1 .. Len(chain) - 1
      BY <1>3, <2>2
    <3>2. longer[i] = chain[i] /\ longer[i + 1] = chain[i + 1]
      BY <1>3, <1>5, <3>1
    <3> QED
      BY <3>1, <3>2 DEF LeadsTo
  <2> QED
    BY <2>1, <2>2
<1> HIDE DEF longer
<1>7. LeadsTo(longer, to)
  BY <1>4, <1>6 DEF LeadsTo
<1> QED
  BY <1>2, <1>7 DEF longer

LEMMA EditsInvStep == EditInv /\ [EditsNext]_editVars => EditInv'
<1> SUFFICES ASSUME EditInv, [EditsNext]_editVars PROVE EditInv'
  OBVIOUS
<1>1. /\ app \in App /\ seen \in Seen /\ DOMAIN edits = Editors /\ LeadsTo(seen.chain, app.id)
      /\ seen.removals \in Nat
  BY DEF EditInv, Seen
<1>2. CASE Approve
  <2>1. /\ app' = [app EXCEPT !.status = "approved"] /\ UNCHANGED edits
        /\ seen' = [seen EXCEPT !.decisions = seen.decisions + 1, !.removals = 0]
    BY <1>2 DEF Approve
  <2>2. app' \in App /\ app'.id = app.id /\ app'.status = "approved"
    BY <1>1, <2>1 DEF App
  <2>3. seen' \in Seen /\ seen'.chain = seen.chain /\ seen'.removals = 0
    <3>1. seen.decisions + 1 \in Nat
      BY <1>1 DEF Seen
    <3> QED
      BY <1>1, <2>1, <3>1 DEF Seen
  <2> QED
    BY <2>1, <2>2, <2>3 DEF EditInv, LeadsTo
<1>3. CASE RevertToPending
  <2>1. /\ app' = [app EXCEPT !.status = "pending"] /\ UNCHANGED edits /\ app.status = "approved"
        /\ seen' = [seen EXCEPT !.decisions = @ + 1]
    BY <1>3 DEF RevertToPending
  <2>2. app' \in App /\ app'.id = app.id /\ app'.status = "pending"
    BY <1>1, <2>1 DEF App
  <2>3. seen' \in Seen /\ seen'.chain = seen.chain /\ seen'.removals = seen.removals
    BY <1>1, <2>1 DEF Seen
  <2>4. seen.removals <= 0
    BY <2>1 DEF EditInv
  <2> QED
    BY <1>1, <2>1, <2>2, <2>3, <2>4 DEF EditInv, LeadsTo
<1>4. CASE CastBallot \/ AskLink \/ ResendLink
  <2>1. /\ UNCHANGED <<app, edits>>
        /\ seen' = seen \/ seen' = [seen EXCEPT !.decisions = @ + 1]
    BY <1>4 DEF CastBallot, AskLink, ResendLink
  <2>2. seen' \in Seen /\ seen'.chain = seen.chain /\ seen'.removals = seen.removals
    BY <1>1, <2>1 DEF Seen
  <2> QED
    BY <2>1, <2>2, OthersKeepEdits
<1>5. ASSUME NEW e \in Editors, ReadForEdit(e)
      PROVE  EditInv'
  <2>1. PICK i \in Ids, p \in Posts :
            edits' = [edits EXCEPT ![e] = [pc |-> "clash", read |-> app, entry |-> FALSE,
                                           want |-> [app EXCEPT !.id = i, !.post = p]]]
    BY <1>5 DEF ReadForEdit
  <2> DEFINE want == [app EXCEPT !.id = i, !.post = p]
             d == [pc |-> "clash", read |-> app, entry |-> FALSE, want |-> want]
  <2>2. want \in App
    BY <1>1 DEF App
  <2>3. seen' = [seen EXCEPT !.corrections = @ + 1] /\ UNCHANGED app
    BY <1>5 DEF ReadForEdit
  <2>4. seen' \in Seen /\ seen'.chain = seen.chain /\ seen'.removals = seen.removals
    BY <1>1, <2>3 DEF Seen
  <2>5. d.read = app /\ d.want = want /\ edits' = [edits EXCEPT ![e] = d]
    BY <2>1
  <2> HIDE DEF d, want
  <2> QED
    BY <1>1, <2>2, <2>3, <2>4, <2>5, EditGoesOn
<1>6. ASSUME NEW e \in Editors, CheckClash(e) \/ CountBallots(e) \/ MoveEntry(e) \/ RevokeLinks(e)
      PROVE  EditInv'
  <2>1. UNCHANGED <<app, seen>>
    BY <1>6 DEF CheckClash, CountBallots, MoveEntry, RevokeLinks
  <2>2. edits[e].pc # "idle"
    BY <1>6 DEF CheckClash, CountBallots, MoveEntry, RevokeLinks, AtEdit
  <2>3. edits[e].read \in App /\ edits[e].want \in App
    BY <2>2 DEF EditInv
  <2>4. NoEdit.pc = "idle"
    BY DEF NoEdit
  <2>5. ASSUME NEW d, edits' = [edits EXCEPT ![e] = d],
               d.pc = "idle" \/ (d.read = edits[e].read /\ d.want = edits[e].want)
        PROVE  EditInv'
    BY <1>1, <2>1, <2>3, <2>5, EditGoesOn
  <2>6. CASE edits' = [edits EXCEPT ![e] = NoEdit]
    BY <2>4, <2>5, <2>6
  <2>7. CASE \E d : /\ edits' = [edits EXCEPT ![e] = d]
                    /\ d.read = edits[e].read /\ d.want = edits[e].want
    BY <2>5, <2>7
  <2>8. CASE CheckClash(e)
    <3> DEFINE d == [edits[e] EXCEPT !.pc = IF edits[e].read.status = "approved" THEN "ballots" ELSE "write"]
    <3>1. edits' = [edits EXCEPT ![e] = d] \/ edits' = [edits EXCEPT ![e] = NoEdit]
      BY <2>8 DEF CheckClash
    <3>2. d.read = edits[e].read /\ d.want = edits[e].want
      OBVIOUS
    <3> HIDE DEF d
    <3> QED
      BY <2>6, <2>7, <3>1, <3>2
  <2>9. CASE CountBallots(e)
    <3> DEFINE d == [edits[e] EXCEPT !.pc = "write", !.entry = entry.there]
    <3>1. edits' = [edits EXCEPT ![e] = d] \/ edits' = [edits EXCEPT ![e] = NoEdit]
      BY <2>9 DEF CountBallots
    <3>2. d.read = edits[e].read /\ d.want = edits[e].want
      OBVIOUS
    <3> HIDE DEF d
    <3> QED
      BY <2>6, <2>7, <3>1, <3>2
  <2>10. CASE MoveEntry(e)
    <3> DEFINE d == [edits[e] EXCEPT !.pc = "links"]
    <3>1. edits' = [edits EXCEPT ![e] = d]
      BY <2>10 DEF MoveEntry
    <3>2. d.read = edits[e].read /\ d.want = edits[e].want
      OBVIOUS
    <3> HIDE DEF d
    <3> QED
      BY <2>7, <3>1, <3>2
  <2>11. CASE RevokeLinks(e)
    BY <2>6, <2>11 DEF RevokeLinks, EndEdit
  <2> QED
    BY <1>6, <2>8, <2>9, <2>10, <2>11
<1>7. ASSUME NEW e \in Editors, SaveEdit(e)
      PROVE  EditInv'
  <2> DEFINE read == edits[e].read
             want == edits[e].want
  <2>1. edits[e].pc = "write" /\ read \in App /\ want \in App
    BY <1>7 DEF SaveEdit, AtEdit, EditInv
  <2>2. CASE Unchanged(e)
    <3>1. /\ app' = [app EXCEPT !.id = IF want.id # read.id THEN want.id ELSE app.id,
                                !.post = IF want.post # read.post THEN want.post ELSE app.post]
          /\ seen' = [seen EXCEPT !.chain = IF want.id # read.id THEN Append(seen.chain, <<read.id, want.id>>)
                                            ELSE seen.chain]
          /\ edits' = [edits EXCEPT ![e].pc = "entry"]
          /\ app.id = read.id
      BY <1>1, <1>7, <2>2 DEF SaveEdit, Unchanged, App
    <3>2. /\ app' \in App /\ app'.status = app.status
          /\ app'.id = IF want.id # read.id THEN want.id ELSE app.id
      BY <1>1, <2>1, <3>1 DEF App
    <3>3. /\ DOMAIN edits' = Editors
          /\ \A x \in Editors : edits'[x].pc # "idle" => edits'[x].read \in App /\ edits'[x].want \in App
      BY <1>1, <2>1, <3>1 DEF EditInv
    <3>4. seen'.removals = seen.removals
      BY <1>1, <3>1 DEF Seen
    <3>5. CASE want.id # read.id
      <4>1. seen.chain \in Seq(Ids \X Ids) /\ want.id \in Ids
        BY <1>1, <2>1 DEF App, Seen
      <4> DEFINE longer == Append(seen.chain, <<app.id, want.id>>)
      <4>2. longer \in Seq(Ids \X Ids) /\ LeadsTo(longer, want.id)
        BY <1>1, <4>1, Extended DEF App
      <4> HIDE DEF longer
      <4>3. seen'.chain = longer /\ seen' \in Seen
        BY <1>1, <3>1, <3>5, <4>2 DEF Seen, longer
      <4>4. LeadsTo(seen'.chain, app'.id)
        BY <3>2, <3>5, <4>2, <4>3
      <4> QED
        BY <3>2, <3>3, <3>4, <4>3, <4>4 DEF EditInv
    <3>6. CASE want.id = read.id
      <4>1. seen'.chain = seen.chain /\ seen' \in Seen /\ app'.id = app.id
        BY <1>1, <3>1, <3>2, <3>6 DEF Seen
      <4> QED
        BY <1>1, <3>2, <3>3, <3>4, <4>1 DEF EditInv, LeadsTo
    <3> QED
      BY <3>5, <3>6
  <2>3. CASE ~Unchanged(e)
    <3>1. edits' = [edits EXCEPT ![e] = NoEdit] /\ UNCHANGED <<app, seen>>
      BY <1>7, <2>3 DEF SaveEdit, EndEdit
    <3>2. NoEdit.pc = "idle"
      BY DEF NoEdit
    <3> QED
      BY <1>1, <3>1, <3>2, EditGoesOn
  <2> QED
    BY <2>2, <2>3
<1>8. ASSUME NEW m \in Members, VoteToRemove(m) \/ StoreVote(m) \/ TallyRemoval(m)
      PROVE  EditInv'
  <2>1. /\ UNCHANGED <<app, edits>>
        /\ seen' = seen \/ seen' = [seen EXCEPT !.votes = @ + 1]
    BY <1>8 DEF VoteToRemove, StoreVote, TallyRemoval
  <2>2. seen' \in Seen /\ seen'.chain = seen.chain /\ seen'.removals = seen.removals
    BY <1>1, <2>1 DEF Seen
  <2> QED
    BY <2>1, <2>2, OthersKeepEdits
<1>9. ASSUME NEW m \in Members, RemoveCandidate(m)
      PROVE  EditInv'
  <2>1. CASE app.status = "approved"
    <3>1. /\ app' = [app EXCEPT !.status = "removed"] /\ UNCHANGED edits
          /\ seen' = [seen EXCEPT !.removals = @ + 1]
      BY <1>9, <2>1 DEF RemoveCandidate, StillApproved
    <3>2. app' \in App /\ app'.id = app.id /\ app'.status = "removed"
      BY <1>1, <3>1 DEF App
    <3>3. seen' \in Seen /\ seen'.chain = seen.chain /\ seen'.removals = seen.removals + 1
      BY <1>1, <3>1 DEF Seen
    <3>4. seen.removals <= 0
      BY <2>1 DEF EditInv
    <3>5. seen'.removals <= 1
      BY <1>1, <3>3, <3>4
    <3> QED
      BY <1>1, <3>1, <3>2, <3>3, <3>5 DEF EditInv, LeadsTo
  <2>2. CASE app.status # "approved"
    <3>1. UNCHANGED <<app, edits, seen>>
      BY <1>9, <2>2 DEF RemoveCandidate, StillApproved
    <3> QED
      BY <1>1, <3>1, OthersKeepEdits
  <2> QED
    BY <2>1, <2>2
<1>10. CASE UNCHANGED editVars
  BY <1>1, <1>10, OthersKeepEdits DEF editVars
<1> QED
  BY <1>2, <1>3, <1>4, <1>5, <1>6, <1>7, <1>8, <1>9, <1>10 DEF EditsNext

(* Each change of a candidate's student id starts from the id the one before it  *)
(* left, and an approved candidate is taken off the ballot once, however many    *)
(* superadmins edit and commissioners vote at the same time.                     *)
THEOREM EditsHold == EditsSpec => []EditsSound
<1>1. EditInv => EditsSound
  <2> SUFFICES ASSUME EditInv PROVE EditsSound
    OBVIOUS
  <2>1. IdentityIsChained
    BY DEF EditInv, LeadsTo, IdentityIsChained
  <2>2. RemovedOnce
    BY DEF EditInv, Seen, RemovedOnce
  <2> QED
    BY <2>1, <2>2 DEF EditsSound
<1> QED
  BY <1>1, EditsInvInit, EditsInvStep, PTL DEF EditsSpec

-----------------------------------------------------------------------------
(* Nomination forms (NominationFiles).                                         *)

(* Who holds a file: the submission that claimed it, and the application it     *)
(* became, until the file is given back or the application is in doubt.         *)
HeldBy(s, f) ==
    /\ submissions[s].file = f
    /\ submissions[s].pc \in {"claimed", "released"} \/ (forms[s].file = f /\ s \notin doubtful)

Filed == applications \cup archive \cup purged

Form == [file : Files \cup {NoFile}, required : BOOLEAN]

FormTypes ==
    /\ hour \in Nat
    /\ uploads \in [Files -> Upload]
    /\ submissions \in [Submissions -> Submission]
    /\ forms \in [Submissions -> Form]
    /\ DOMAIN phones = Applicants /\ reviewed \subseteq Applicants
    /\ DOMAIN clerks = Clerks /\ doubtful \subseteq Submissions /\ Filed \subseteq Submissions

(* What an application has comes from its submission, and only a submission     *)
(* that was inserted has one.                                                   *)
SubmissionKept(s) ==
    /\ submissions[s].pc \in {"checked", "released"} => submissions[s].file # NoFile
    /\ submissions[s].pc \in {"new", "checked", "claimed"} => s \notin doubtful
    /\ submissions[s].pc \in {"new", "checked", "claimed", "released"} /\ s \notin doubtful =>
          s \notin Filed /\ forms[s].file = NoFile
    /\ forms[s].file # NoFile => forms[s].file = submissions[s].file
    /\ s \in doubtful => forms[s].file = submissions[s].file
    /\ submissions[s].required => submissions[s].file # NoFile
    /\ forms[s].required => forms[s].file # NoFile

ClerkKept(c) == clerks[c].pc \in {"files", "records"} => clerks[c].app \subseteq purged

(* Too old to be claimed.                                                       *)
Overdue(f) == uploads[f].born < hour - UploadTTL

FileKept(f) ==
    /\ f \in sweep => Overdue(f) /\ uploads[f].status \in {"pending", "gone"}
    /\ uploads[f].status = "pending" /\ f \notin bucket /\ ~InDoubt(f) => Overdue(f)

HoldingKept(s, f) ==
    HeldBy(s, f) =>
       /\ uploads[f].status \in {"attached", "gone"}
       /\ s \notin purged /\ ~InDoubt(f) => Readable(f)

HeldOnce == \A f \in Files, s, t \in Submissions : HeldBy(s, f) /\ HeldBy(t, f) => s = t

NominationInv ==
    /\ FormTypes
    /\ \A s \in Submissions : SubmissionKept(s)
    /\ \A c \in Clerks : ClerkKept(c)
    /\ \A f \in Files : FileKept(f)
    /\ \A s \in Submissions, f \in Files : HoldingKept(s, f)
    /\ HeldOnce
    /\ PhoneKept

LEMMA NominationInvInit == NominationInit => NominationInv
<1> SUFFICES ASSUME NominationInit PROVE NominationInv
  OBVIOUS
<1> DEFINE u == [status |-> "none", born |-> 0]
           n == [pc |-> "new", who |-> Nobody, file |-> NoFile, required |-> FALSE, phone |-> FALSE]
           h == [file |-> NoFile, required |-> FALSE]
<1>1. u \in Upload /\ u.status = "none"
  BY DEF Upload
<1>2. n \in Submission /\ n.pc = "new" /\ n.file = NoFile /\ n.required = FALSE
  BY DEF Submission, FormStages
<1>3. h \in Form /\ h.file = NoFile /\ h.required = FALSE
  BY DEF Form
<1>4. /\ uploads = [f \in Files |-> u] /\ submissions = [s \in Submissions |-> n]
      /\ forms = [s \in Submissions |-> h] /\ clerks = [c \in Clerks |-> NoClerk]
      /\ phones = [a \in Applicants |-> "none"] /\ hour = 0
      /\ applications = {} /\ archive = {} /\ purged = {} /\ doubtful = {} /\ reviewed = {} /\ sweep = {}
  BY DEF NominationInit
<1> HIDE DEF u, n, h
<1>5. FormTypes
  BY <1>1, <1>2, <1>3, <1>4 DEF FormTypes, Filed
<1>6. NoFile \notin Files /\ NoClerk.pc = "idle"
  BY NominationAssumption DEF NoClerk
<1>7. ASSUME NEW s \in Submissions PROVE SubmissionKept(s)
  BY <1>2, <1>3, <1>4 DEF SubmissionKept, Filed
<1>8. ASSUME NEW s \in Submissions, NEW f \in Files PROVE ~HeldBy(s, f)
  BY <1>2, <1>4, <1>6 DEF HeldBy
<1>9. ASSUME NEW f \in Files PROVE FileKept(f)
  BY <1>1, <1>4 DEF FileKept
<1>10. ASSUME NEW c \in Clerks PROVE ClerkKept(c)
  BY <1>4, <1>6 DEF ClerkKept
<1> QED
  BY <1>4, <1>5, <1>7, <1>8, <1>9, <1>10 DEF NominationInv, HoldingKept, HeldOnce, PhoneKept

(* The step of one clerk.                                                       *)
LEMMA ClerkGoes ==
    ASSUME NominationInv, NEW c \in Clerks, NEW s \in Submissions, NEW pc, ClerkTo(c, pc, s),
           purged \subseteq purged', pc \in {"files", "records"} => s \in purged'
    PROVE  DOMAIN clerks' = Clerks /\ \A d \in Clerks : ClerkKept(d)'
<1>1. DOMAIN clerks = Clerks /\ \A d \in Clerks : ClerkKept(d)
  BY DEF NominationInv, FormTypes
<1> DEFINE n == IF pc = "idle" THEN NoClerk ELSE [pc |-> pc, app |-> {s}]
<1>2. clerks' = [clerks EXCEPT ![c] = n]
  BY DEF ClerkTo
<1>3. n.pc \in {"files", "records"} => n.app \subseteq purged'
  BY DEF NoClerk
<1> HIDE DEF n
<1>4. \A d \in Clerks : clerks'[d] = IF d = c THEN n ELSE clerks[d]
  BY <1>1, <1>2
<1> QED
  BY <1>1, <1>2, <1>3, <1>4 DEF ClerkKept

(* Applications come and go, the files stay where they are.                     *)
LEMMA ApplicationsMove ==
    ASSUME NominationInv,
           UNCHANGED <<hour, bucket, uploads, submissions, forms, doubtful, phones, reviewed, sweep>>,
           purged \subseteq purged', Filed' \subseteq Filed,
           DOMAIN clerks' = Clerks, \A d \in Clerks : ClerkKept(d)'
    PROVE  NominationInv'
<1>1. FormTypes' /\ PhoneKept'
  BY DEF NominationInv, FormTypes, PhoneKept
<1>2. ASSUME NEW s \in Submissions PROVE SubmissionKept(s)'
  <2>1. SubmissionKept(s)
    BY DEF NominationInv
  <2> QED
    BY <2>1 DEF SubmissionKept
<1>3. ASSUME NEW f \in Files PROVE FileKept(f)'
  <2>1. FileKept(f)
    BY DEF NominationInv
  <2> QED
    BY <2>1 DEF FileKept, InDoubt, Overdue
<1>4. ASSUME NEW s \in Submissions, NEW f \in Files PROVE HoldingKept(s, f)'
  <2>1. HoldingKept(s, f)
    BY DEF NominationInv
  <2> QED
    BY <2>1 DEF HoldingKept, HeldBy, InDoubt, Readable
<1>5. HeldOnce'
  BY DEF NominationInv, HeldOnce, HeldBy
<1> QED
  BY <1>1, <1>2, <1>3, <1>4, <1>5 DEF NominationInv

(* A file or its record moves, nothing else.                                    *)
LEMMA FilesMove ==
    ASSUME NominationInv, UNCHANGED <<submissions, forms, doubtful, phones, reviewed, applications, archive, purged>>,
           hour' \in Nat, uploads' \in [Files -> Upload],
           DOMAIN clerks' = Clerks, \A d \in Clerks : ClerkKept(d)',
           \A f \in Files : FileKept(f)',
           \A s \in Submissions, f \in Files : HeldBy(s, f) =>
               /\ uploads'[f].status \in {"attached", "gone"}
               /\ s \notin purged /\ ~InDoubt(f) => Readable(f)'
    PROVE  NominationInv'
<1>1. FormTypes' /\ PhoneKept'
  BY DEF NominationInv, FormTypes, PhoneKept, Filed
<1>2. ASSUME NEW s \in Submissions PROVE SubmissionKept(s)'
  <2>1. SubmissionKept(s)
    BY DEF NominationInv
  <2> QED
    BY <2>1 DEF SubmissionKept, Filed
<1>3. ASSUME NEW s \in Submissions, NEW f \in Files PROVE HoldingKept(s, f)'
  BY DEF HoldingKept, HeldBy, InDoubt
<1>4. HeldOnce'
  BY DEF NominationInv, HeldOnce, HeldBy
<1> QED
  BY <1>1, <1>2, <1>3, <1>4 DEF NominationInv

(* A step of one submission.                                                    *)
LEMMA SubmissionMoves ==
    ASSUME NominationInv, NEW s \in Submissions,
           submissions' \in [Submissions -> Submission], forms' \in [Submissions -> Form],
           \A t \in Submissions \ {s} : submissions'[t] = submissions[t] /\ forms'[t] = forms[t],
           s \in doubtful => forms'[s] = forms[s],
           doubtful \subseteq doubtful', doubtful' \subseteq doubtful \cup {s},
           Filed' \subseteq Filed \cup {s},
           UNCHANGED <<hour, bucket, sweep, clerks, purged, reviewed>>,
           uploads' \in [Files -> Upload], DOMAIN phones' = Applicants, PhoneKept', SubmissionKept(s)',
           \A f \in Files : uploads'[f] = uploads[f] \/ FileKept(f)',
           \A f \in Files : HoldingKept(s, f)',
           \A f \in Files, t \in Submissions \ {s} : HeldBy(t, f) => uploads'[f] = uploads[f],
           \A f \in Files : HeldBy(s, f)' => HeldBy(s, f) \/ uploads[f].status = "pending"
    PROVE  NominationInv'
<1>1. FormTypes'
  BY DEF NominationInv, FormTypes
<1>2. ASSUME NEW t \in Submissions PROVE SubmissionKept(t)'
  <2>1. CASE t = s
    BY <2>1
  <2>2. CASE t # s
    <3>1. SubmissionKept(t)
      BY DEF NominationInv
    <3> QED
      BY <2>2, <3>1 DEF SubmissionKept
  <2> QED
    BY <2>1, <2>2
<1>3. \A c \in Clerks : ClerkKept(c)'
  BY DEF NominationInv, ClerkKept
<1>4. ASSUME NEW f \in Files, InDoubt(f) PROVE InDoubt(f)'
  <2>1. PICK d \in doubtful : forms[d].file = f
    BY <1>4 DEF InDoubt
  <2>2. CASE d = s
    BY <2>1, <2>2 DEF InDoubt
  <2>3. CASE d # s
    <3>1. CASE d \in Submissions
      BY <2>1, <2>3, <3>1 DEF InDoubt
    <3>2. d \in Submissions
      BY DEF NominationInv, FormTypes
    <3> QED
      BY <3>1, <3>2
  <2> QED
    BY <2>2, <2>3
<1>5. ASSUME NEW f \in Files PROVE FileKept(f)'
  <2>1. CASE uploads'[f] = uploads[f]
    <3>1. FileKept(f)
      BY DEF NominationInv
    <3> QED
      BY <1>4, <2>1, <3>1 DEF FileKept, Overdue
  <2> QED
    BY <2>1
<1>6. ASSUME NEW f \in Files, NEW t \in Submissions \ {s} PROVE HeldBy(t, f)' <=> HeldBy(t, f)
  BY DEF HeldBy
<1>7. ASSUME NEW t \in Submissions, NEW f \in Files PROVE HoldingKept(t, f)'
  <2>1. CASE t = s
    BY <2>1
  <2>2. CASE t # s
    <3>1. HoldingKept(t, f)
      BY DEF NominationInv
    <3> QED
      BY <1>4, <1>6, <2>2, <3>1 DEF HoldingKept, Readable
  <2> QED
    BY <2>1, <2>2
<1>8. HeldOnce'
  <2> SUFFICES ASSUME NEW f \in Files, NEW t \in Submissions \ {s}, HeldBy(s, f)', HeldBy(t, f)
               PROVE  FALSE
    BY <1>6 DEF NominationInv, HeldOnce
  <2>1. HoldingKept(t, f)
    BY DEF NominationInv
  <2>2. HeldBy(s, f)
    BY <2>1 DEF HoldingKept
  <2> QED
    BY <2>2 DEF NominationInv, HeldOnce
<1> QED
  BY <1>1, <1>2, <1>3, <1>5, <1>7, <1>8 DEF NominationInv

LEMMA NominationInvStep == NominationInv /\ [NominationNext]_nominationVars => NominationInv'
<1> SUFFICES ASSUME NominationInv, [NominationNext]_nominationVars PROVE NominationInv'
  OBVIOUS
<1>1. /\ hour \in Nat /\ UploadTTL \in Nat /\ uploads \in [Files -> Upload]
      /\ submissions \in [Submissions -> Submission] /\ forms \in [Submissions -> Form]
      /\ DOMAIN phones = Applicants /\ reviewed \subseteq Applicants
      /\ DOMAIN clerks = Clerks /\ doubtful \subseteq Submissions
  BY NominationAssumption DEF NominationInv, FormTypes
<1>2. /\ \A c \in Clerks : ClerkKept(c)
      /\ \A s \in Submissions : SubmissionKept(s)
      /\ \A f \in Files : FileKept(f) /\ uploads[f].born \in Nat
      /\ \A s \in Submissions, f \in Files : HoldingKept(s, f)
      /\ NoFile \notin Files
  BY <1>1, NominationAssumption DEF NominationInv, Upload
<1>3. ASSUME NEW s \in Submissions
      PROVE  /\ submissions[s] \in Submission /\ forms[s] \in Form /\ submissions[s].pc \in FormStages
             /\ submissions[s].file \in Files \cup {NoFile} /\ submissions[s].required \in BOOLEAN
  BY <1>1 DEF Submission
<1>4. CASE NextHour
  <2>1. hour' = hour + 1 /\ UNCHANGED <<bucket, uploads, submissions, applications, archive, forms, phones,
                                        sweep, clerks, reviewed, doubtful, purged>>
    BY <1>4 DEF NextHour
  <2>2. ASSUME NEW f \in Files PROVE FileKept(f)'
    <3>1. Overdue(f) => Overdue(f)'
      BY <1>1, <1>2, <2>1 DEF Overdue
    <3> QED
      BY <1>2, <2>1, <3>1 DEF FileKept, InDoubt
  <2>3. \A d \in Clerks : ClerkKept(d)'
    BY <1>2, <2>1 DEF ClerkKept
  <2> QED
    BY <1>1, <1>2, <2>1, <2>2, <2>3, FilesMove DEF HoldingKept, Readable
<1>5. ASSUME (\E r \in Rules : SetRule(r)) \/ UNCHANGED nominationVars
      PROVE  NominationInv'
  <2>1. UNCHANGED <<hour, bucket, uploads, submissions, applications, archive, forms, phones,
                    sweep, clerks, reviewed, doubtful, purged>>
    BY <1>5 DEF SetRule, nominationVars
  <2>2. \A d \in Clerks : ClerkKept(d)'
    BY <1>2, <2>1 DEF ClerkKept
  <2> QED
    BY <1>1, <2>1, <2>2, ApplicationsMove DEF Filed
<1>6. CASE FindStale
  <2>1. /\ UNCHANGED <<hour, bucket, uploads, submissions, applications, archive, forms, phones,
                       clerks, reviewed, doubtful, purged>>
        /\ sweep' = {f \in Files : Stale(f)}
    BY <1>6 DEF FindStale
  <2>2. ASSUME NEW f \in Files PROVE FileKept(f)'
    BY <1>2, <2>1 DEF FileKept, Stale, Overdue, InDoubt
  <2>3. \A d \in Clerks : ClerkKept(d)'
    BY <1>2, <2>1 DEF ClerkKept
  <2> QED
    BY <1>1, <1>2, <2>1, <2>2, <2>3, FilesMove DEF HoldingKept, Readable
<1>7. ASSUME NEW g \in Files, PutObject(g)
      PROVE  NominationInv'
  <2>1. /\ UNCHANGED <<hour, uploads, submissions, applications, archive, forms, phones,
                       sweep, clerks, reviewed, doubtful, purged>>
        /\ bucket' = bucket \cup {g}
    BY <1>7 DEF PutObject
  <2>2. ASSUME NEW f \in Files PROVE FileKept(f)'
    BY <1>2, <2>1 DEF FileKept, Overdue, InDoubt
  <2>3. \A d \in Clerks : ClerkKept(d)'
    BY <1>2, <2>1 DEF ClerkKept
  <2> QED
    BY <1>1, <1>2, <2>1, <2>2, <2>3, FilesMove DEF HoldingKept, Readable
<1>8. ASSUME NEW g \in Files, RecordUpload(g)
      PROVE  NominationInv'
  <2> DEFINE u == [status |-> "pending", born |-> hour]
  <2>1. /\ UNCHANGED <<hour, bucket, submissions, applications, archive, forms, phones,
                       sweep, clerks, reviewed, doubtful, purged>>
        /\ uploads' = [uploads EXCEPT ![g] = u] /\ uploads[g].status = "none" /\ g \in bucket
    BY <1>8 DEF RecordUpload
  <2>2. u \in Upload
    BY <1>1 DEF Upload
  <2> HIDE DEF u
  <2>3. uploads' \in [Files -> Upload] /\ \A f \in Files : f # g => uploads'[f] = uploads[f]
    BY <1>1, <2>1, <2>2
  <2>4. ASSUME NEW f \in Files PROVE FileKept(f)'
    <3>1. f = g => f \notin sweep /\ f \in bucket
      BY <1>2, <2>1 DEF FileKept
    <3> QED
      BY <1>2, <2>1, <2>3, <3>1 DEF FileKept, Overdue, InDoubt
  <2>5. \A d \in Clerks : ClerkKept(d)'
    BY <1>2, <2>1 DEF ClerkKept
  <2>6. ASSUME NEW s \in Submissions, NEW f \in Files, HeldBy(s, f)
        PROVE  uploads'[f] = uploads[f]
    BY <1>2, <2>1, <2>3, <2>6 DEF HoldingKept
  <2> QED
    BY <1>1, <1>2, <2>1, <2>3, <2>4, <2>5, <2>6, FilesMove DEF HoldingKept, Readable
<1>9. ASSUME NEW g \in Files, SweepObject(g)
      PROVE  NominationInv'
  <2>1. /\ UNCHANGED <<hour, uploads, submissions, applications, archive, forms, phones,
                       clerks, reviewed, doubtful, purged>>
        /\ g \in sweep /\ sweep' \subseteq sweep
        /\ bucket \ {g} \subseteq bucket'
    BY <1>9 DEF SweepObject
  <2>2. Overdue(g) /\ uploads[g].status # "attached"
    BY <1>2, <2>1 DEF FileKept
  <2>3. ASSUME NEW f \in Files PROVE FileKept(f)'
    BY <1>2, <2>1, <2>2 DEF FileKept, Overdue, InDoubt
  <2>4. \A d \in Clerks : ClerkKept(d)'
    BY <1>2, <2>1 DEF ClerkKept
  <2> QED
    BY <1>1, <1>2, <2>1, <2>2, <2>3, <2>4, FilesMove DEF HoldingKept, Readable
<1>10. ASSUME NEW g \in Files, SweepRecord(g)
       PROVE  NominationInv'
  <2> DEFINE u == [uploads[g] EXCEPT !.status = "gone"]
  <2>1. /\ UNCHANGED <<hour, bucket, submissions, applications, archive, forms, phones,
                       clerks, reviewed, doubtful, purged>>
        /\ g \in sweep /\ sweep' = sweep \ {g}
        /\ uploads' = [uploads EXCEPT ![g] = u]
    BY <1>10 DEF SweepRecord
  <2>2. u \in Upload /\ u.status = "gone"
    BY <1>1 DEF Upload
  <2> HIDE DEF u
  <2>3. /\ uploads' \in [Files -> Upload] /\ \A f \in Files : f # g => uploads'[f] = uploads[f]
        /\ uploads'[g].status = "gone"
    BY <1>1, <2>1, <2>2
  <2>4. uploads[g].status # "attached"
    BY <1>2, <2>1 DEF FileKept
  <2>5. ASSUME NEW f \in Files PROVE FileKept(f)'
    <3>1. CASE f = g
      BY <2>1, <2>3, <3>1 DEF FileKept
    <3>2. CASE f # g
      BY <1>2, <2>1, <2>3, <3>2 DEF FileKept, Overdue, InDoubt
    <3> QED
      BY <3>1, <3>2
  <2>6. \A d \in Clerks : ClerkKept(d)'
    BY <1>2, <2>1 DEF ClerkKept
  <2> QED
    BY <1>1, <1>2, <2>1, <2>3, <2>4, <2>5, <2>6, FilesMove DEF HoldingKept, Readable
<1>11. ASSUME NEW s \in Submissions, NEW a \in Applicants, NEW f \in Files \cup {NoFile}, Check(s, a, f)
       PROVE  NominationInv'
  <2> DEFINE r == [pc |-> IF f = NoFile THEN "claimed" ELSE "checked", who |-> a, file |-> f,
                   required |-> rule = "required", phone |-> phones[a] = "none"]
  <2>1. /\ UNCHANGED <<hour, bucket, uploads, applications, archive, forms, phones,
                       sweep, clerks, reviewed, doubtful, purged>>
        /\ submissions[s].pc = "new" /\ submissions' = [submissions EXCEPT ![s] = r]
        /\ rule = "required" => f # NoFile
    BY <1>11 DEF Check
  <2>2. /\ r \in Submission /\ r.file = f /\ (r.required => f # NoFile)
        /\ r.pc = IF f = NoFile THEN "claimed" ELSE "checked"
    BY <2>1 DEF Submission, FormStages
  <2> HIDE DEF r
  <2>3. /\ submissions' \in [Submissions -> Submission] /\ submissions'[s] = r
        /\ \A t \in Submissions \ {s} : submissions'[t] = submissions[t]
    BY <1>1, <2>1, <2>2
  <2>4. s \notin doubtful /\ s \notin Filed /\ forms[s].file = NoFile
    BY <1>2, <2>1 DEF SubmissionKept
  <2>5. SubmissionKept(s)'
    BY <1>2, <2>1, <2>2, <2>3, <2>4 DEF SubmissionKept, Filed
  <2>6. ASSUME NEW g \in Files PROVE ~HeldBy(s, g)'
    BY <1>2, <2>1, <2>2, <2>3, <2>4 DEF HeldBy
  <2>7. PhoneKept' /\ DOMAIN phones' = Applicants /\ Filed' = Filed
    BY <1>1, <2>1 DEF NominationInv, PhoneKept, Filed
  <2> QED
    BY <1>1, <2>1, <2>3, <2>5, <2>6, <2>7, SubmissionMoves DEF HoldingKept
<1>12. ASSUME NEW s \in Submissions, Claim(s)
       PROVE  NominationInv'
  <2>0. PICK f \in Files : submissions[s].file = f
    <3>1. submissions[s].pc = "checked"
      BY <1>12 DEF Claim
    <3> QED
      BY <1>2, <1>3, <3>1 DEF SubmissionKept
  <2> DEFINE o == submissions[s]
             u == [uploads[f] EXCEPT !.status = "attached"]
             r == [o EXCEPT !.pc = IF Claimable(f) THEN "claimed" ELSE "done"]
  <2>1. /\ UNCHANGED <<hour, bucket, applications, archive, forms, phones,
                       sweep, clerks, reviewed, doubtful, purged>>
        /\ o.pc = "checked" /\ submissions' = [submissions EXCEPT ![s] = r]
        /\ uploads' = IF Claimable(f) THEN [uploads EXCEPT ![f] = u] ELSE uploads
    BY <1>12, <2>0 DEF Claim
  <2>2. /\ o \in Submission
        /\ s \notin doubtful /\ s \notin Filed /\ forms[s].file = NoFile
    BY <1>2, <1>3, <2>1 DEF SubmissionKept
  <2>3. /\ r \in Submission /\ r.file = f /\ r.required = o.required
        /\ r.pc = IF Claimable(f) THEN "claimed" ELSE "done"
    BY <2>0, <2>2 DEF Submission, FormStages
  <2>4. u \in Upload /\ u.status = "attached" /\ u.born = uploads[f].born
    BY <1>1, <2>2 DEF Upload
  <2> HIDE DEF r, u
  <2>5. /\ submissions' \in [Submissions -> Submission] /\ submissions'[s] = r
        /\ \A t \in Submissions \ {s} : submissions'[t] = submissions[t]
    BY <1>1, <2>1, <2>3
  <2>6. /\ uploads' \in [Files -> Upload]
        /\ \A g \in Files : uploads'[g] = IF g = f /\ Claimable(f) THEN u ELSE uploads[g]
    BY <1>1, <2>1, <2>2, <2>4
  <2>7. SubmissionKept(s)'
    BY <1>2, <2>1, <2>2, <2>3, <2>5 DEF SubmissionKept, Filed
  <2>8. PhoneKept' /\ DOMAIN phones' = Applicants /\ Filed' = Filed
    BY <1>1, <2>1 DEF NominationInv, PhoneKept, Filed
  <2>9. CASE ~Claimable(f)
    <3>1. ASSUME NEW g \in Files PROVE ~HeldBy(s, g)'
      BY <1>2, <2>1, <2>2, <2>3, <2>5, <2>9 DEF HeldBy
    <3> QED
      BY <1>1, <2>1, <2>5, <2>6, <2>7, <2>8, <2>9, <3>1, SubmissionMoves DEF HoldingKept
  <2>10. CASE Claimable(f)
    <3>1. uploads[f].status = "pending" /\ uploads[f].born >= hour - UploadTTL
      BY <2>10 DEF Claimable, RecentUpload
    <3>2. f \notin sweep /\ (InDoubt(f) \/ f \in bucket)
      BY <1>1, <1>2, <2>2, <3>1 DEF FileKept, Overdue
    <3>3. ASSUME NEW g \in Files PROVE uploads'[g] = uploads[g] \/ FileKept(g)'
      BY <2>1, <2>4, <2>6, <3>2 DEF FileKept
    <3>4. ASSUME NEW g \in Files PROVE HoldingKept(s, g)'
      <4>1. HeldBy(s, g)' => g = f
        BY <2>3, <2>5 DEF HeldBy
      <4>2. InDoubt(f)' <=> InDoubt(f)
        BY <2>1 DEF InDoubt
      <4> QED
        BY <2>1, <2>4, <2>6, <2>10, <3>2, <4>1, <4>2 DEF HoldingKept, Readable
    <3>5. ASSUME NEW g \in Files, NEW t \in Submissions \ {s}, HeldBy(t, g) PROVE uploads'[g] = uploads[g]
      BY <1>2, <2>6, <3>1, <3>5 DEF HoldingKept
    <3>6. ASSUME NEW g \in Files, HeldBy(s, g)' PROVE uploads[g].status = "pending"
      BY <2>3, <2>5, <3>1, <3>6 DEF HeldBy
    <3> QED
      BY <1>1, <2>1, <2>5, <2>6, <2>7, <2>8, <3>3, <3>4, <3>5, <3>6, SubmissionMoves
  <2> QED
    BY <2>9, <2>10
<1>13. ASSUME NEW s \in Submissions, InsertApplication(s)
       PROVE  NominationInv'
  <2> DEFINE o == submissions[s]
             n == [file |-> o.file, required |-> o.required]
  <2>1. /\ UNCHANGED <<hour, bucket, uploads, archive, phones, sweep, clerks, reviewed, purged>>
        /\ o.pc = "claimed"
    BY <1>13 DEF InsertApplication
  <2>2. /\ o \in Submission /\ n \in Form /\ n.file = o.file /\ n.required = o.required
        /\ s \notin doubtful /\ s \notin Filed /\ forms[s].file = NoFile
    BY <1>2, <1>3, <2>1 DEF SubmissionKept, Form
  <2> HIDE DEF n
  <2>3. PICK pc \in {"stored", "done", "released"} :
            /\ submissions' = [submissions EXCEPT ![s].pc = pc]
            /\ pc = "released" => o.file # NoFile
            /\ pc = "done" => o.file = NoFile
            /\ \/ Stored(s) /\ pc = "stored" /\ UNCHANGED doubtful
               \/ Stored(s) /\ pc # "stored" /\ doubtful' = doubtful \cup {s}
               \/ pc # "stored" /\ UNCHANGED <<applications, forms, doubtful>>
    BY <1>13 DEF InsertApplication
  <2> DEFINE r == [o EXCEPT !.pc = pc]
  <2>4. r \in Submission /\ r.pc = pc /\ r.file = o.file /\ r.required = o.required
    BY <2>2 DEF Submission, FormStages
  <2>5. submissions' = [submissions EXCEPT ![s] = r]
    BY <2>3
  <2> HIDE DEF r
  <2>6. /\ submissions' \in [Submissions -> Submission] /\ submissions'[s] = r
        /\ \A t \in Submissions \ {s} : submissions'[t] = submissions[t]
    BY <1>1, <2>4, <2>5
  <2>7. /\ forms' \in [Submissions -> Form]
        /\ \A t \in Submissions \ {s} : forms'[t] = forms[t]
        /\ \/ forms'[s] = n /\ applications' = applications \cup {s}
              /\ \/ doubtful' = doubtful /\ pc = "stored"
                 \/ doubtful' = doubtful \cup {s} /\ pc # "stored"
           \/ forms'[s] = forms[s] /\ applications' = applications /\ doubtful' = doubtful /\ pc # "stored"
    <3>1. CASE Stored(s)
      <4>1. forms' = [forms EXCEPT ![s] = n] /\ applications' = applications \cup {s}
        BY <3>1 DEF Stored, RequiredThen, n
      <4>2. n \in Form
        BY <2>2
      <4>3. forms \in [Submissions -> Form]
        BY <1>1
      <4>4. /\ forms' \in [Submissions -> Form] /\ forms'[s] = n
            /\ \A t \in Submissions \ {s} : forms'[t] = forms[t]
        BY <4>1, <4>2, <4>3
      <4>5. \/ doubtful' = doubtful /\ pc = "stored"
            \/ doubtful' = doubtful \cup {s} /\ pc # "stored"
        <5>1. s \notin applications
          BY <2>2 DEF Filed
        <5>2. applications' # applications
          BY <4>1, <5>1
        <5> QED
          BY <2>3, <5>2
      <4> QED
        BY <4>1, <4>4, <4>5
    <3>2. CASE UNCHANGED <<applications, forms, doubtful>> /\ pc # "stored"
      BY <1>1, <3>2
    <3> QED
      BY <2>3, <3>1, <3>2
  <2>8. SubmissionKept(s)'
    BY <1>2, <2>1, <2>2, <2>3, <2>4, <2>6, <2>7 DEF SubmissionKept, Filed
  <2>9. PhoneKept' /\ DOMAIN phones' = Applicants /\ Filed' \subseteq Filed \cup {s}
    BY <1>1, <2>1, <2>7 DEF NominationInv, PhoneKept, Filed
  <2>10. doubtful \subseteq doubtful' /\ doubtful' \subseteq doubtful \cup {s}
    BY <2>7
  <2>11. ASSUME NEW f \in Files, HeldBy(s, f)' PROVE HeldBy(s, f)
    BY <2>1, <2>4, <2>6, <2>11 DEF HeldBy
  <2>12. ASSUME NEW f \in Files, InDoubt(f) PROVE InDoubt(f)'
    <3>1. PICK d \in doubtful : forms[d].file = f
      BY <2>12 DEF InDoubt
    <3>2. d \in doubtful' /\ forms'[d] = forms[d]
      BY <1>1, <2>2, <2>7, <3>1
    <3> QED
      BY <3>1, <3>2 DEF InDoubt
  <2>13. ASSUME NEW f \in Files PROVE HoldingKept(s, f)'
    <3>1. HoldingKept(s, f)
      BY <1>2
    <3> QED
      BY <2>1, <2>11, <2>12, <3>1 DEF HoldingKept, Readable
  <2> QED
    BY <1>1, <2>1, <2>2, <2>6, <2>7, <2>8, <2>9, <2>10, <2>11, <2>13, SubmissionMoves
<1>14. ASSUME NEW s \in Submissions, GiveBack(s)
       PROVE  NominationInv'
  <2>0. PICK f \in Files : submissions[s].file = f
    <3>1. submissions[s].pc = "released"
      BY <1>14 DEF GiveBack
    <3> QED
      BY <1>2, <1>3, <3>1 DEF SubmissionKept
  <2> DEFINE o == submissions[s]
             u == [uploads[f] EXCEPT !.status = "pending"]
             r == [o EXCEPT !.pc = "done"]
  <2>1. /\ UNCHANGED <<hour, bucket, applications, archive, forms, phones,
                       sweep, clerks, reviewed, doubtful, purged>>
        /\ o.pc = "released" /\ submissions' = [submissions EXCEPT ![s] = r]
        /\ uploads' = IF uploads[f].status = "attached" THEN [uploads EXCEPT ![f] = u] ELSE uploads
    BY <1>14, <2>0 DEF GiveBack
  <2>2. /\ o \in Submission
        /\ s \notin doubtful => s \notin Filed /\ forms[s].file = NoFile
        /\ s \in doubtful => forms[s].file = f
    BY <1>2, <1>3, <2>0, <2>1 DEF SubmissionKept
  <2>3. r \in Submission /\ r.file = f /\ r.required = o.required /\ r.pc = "done"
    BY <2>0, <2>2 DEF Submission, FormStages
  <2>4. u \in Upload /\ u.status = "pending" /\ u.born = uploads[f].born
    BY <1>1, <2>2 DEF Upload
  <2>5. HeldBy(s, f)
    BY <2>0, <2>1 DEF HeldBy
  <2> HIDE DEF r, u
  <2>6. /\ submissions' \in [Submissions -> Submission] /\ submissions'[s] = r
        /\ \A t \in Submissions \ {s} : submissions'[t] = submissions[t]
    BY <1>1, <2>1, <2>3
  <2>7. /\ uploads' \in [Files -> Upload]
        /\ \A g \in Files : uploads'[g] = IF g = f /\ uploads[f].status = "attached" THEN u ELSE uploads[g]
    BY <1>1, <2>1, <2>2, <2>4
  <2>8. SubmissionKept(s)'
    BY <1>2, <2>1, <2>2, <2>3, <2>6 DEF SubmissionKept, Filed
  <2>9. PhoneKept' /\ DOMAIN phones' = Applicants /\ Filed' = Filed
    BY <1>1, <2>1 DEF NominationInv, PhoneKept, Filed
  <2>10. ASSUME NEW g \in Files PROVE ~HeldBy(s, g)'
    BY <1>2, <2>1, <2>2, <2>3, <2>6 DEF HeldBy
  <2>11. InDoubt(f)' \/ (f \in bucket /\ (uploads[f].status = "attached" => f \notin sweep))
         \/ uploads[f].status # "attached"
    <3>1. CASE s \in doubtful
      BY <2>1, <2>2, <3>1 DEF InDoubt
    <3>2. CASE s \notin doubtful
      <4>1. s \notin purged /\ HoldingKept(s, f) /\ FileKept(f)
        BY <1>2, <2>2, <3>2 DEF Filed
      <4>2. InDoubt(f) <=> InDoubt(f)'
        BY <2>1 DEF InDoubt
      <4> QED
        BY <2>5, <4>1, <4>2 DEF HoldingKept, Readable, FileKept
    <3> QED
      BY <3>1, <3>2
  <2>12. ASSUME NEW g \in Files PROVE uploads'[g] = uploads[g] \/ FileKept(g)'
    <3>1. CASE g = f /\ uploads[f].status = "attached"
      <4>1. f \notin sweep
        BY <1>2, <2>2, <3>1 DEF FileKept
      <4> QED
        BY <2>1, <2>11, <3>1, <4>1 DEF FileKept
    <3> QED
      BY <2>7, <3>1
  <2>13. ASSUME NEW g \in Files, NEW t \in Submissions \ {s}, HeldBy(t, g) PROVE uploads'[g] = uploads[g]
    BY <2>2, <2>5, <2>7, <2>13 DEF NominationInv, HeldOnce
  <2> QED
    BY <1>1, <2>1, <2>6, <2>7, <2>8, <2>9, <2>10, <2>12, <2>13, SubmissionMoves DEF HoldingKept
<1>15. ASSUME NEW s \in Submissions, SavePhone(s)
       PROVE  NominationInv'
  <2> DEFINE o == submissions[s]
             r == [o EXCEPT !.pc = "done"]
  <2>1. /\ UNCHANGED <<hour, bucket, uploads, applications, archive, forms,
                       sweep, clerks, reviewed, doubtful, purged>>
        /\ o.pc = "stored" /\ submissions' = [submissions EXCEPT ![s] = r]
        /\ phones' = phones \/ (phones[o.who] = "none" /\ phones' = [phones EXCEPT ![o.who] = "applicant"])
    BY <1>15 DEF SavePhone, StillBare
  <2>2. r \in Submission /\ r.file = o.file /\ r.required = o.required /\ r.pc = "done"
    BY <1>3 DEF Submission, FormStages
  <2> HIDE DEF r
  <2>3. /\ submissions' \in [Submissions -> Submission] /\ submissions'[s] = r
        /\ \A t \in Submissions \ {s} : submissions'[t] = submissions[t]
    BY <1>1, <2>1, <2>2
  <2>4. SubmissionKept(s)'
    BY <1>2, <2>1, <2>2, <2>3 DEF SubmissionKept, Filed
  <2>5. DOMAIN phones' = Applicants /\ Filed' = Filed
    BY <1>1, <2>1 DEF Filed
  <2>6. PhoneKept'
    <3> SUFFICES ASSUME NEW a \in reviewed PROVE phones'[a] = "reviewed"
      BY <2>1 DEF PhoneKept
    <3>1. phones[a] = "reviewed" /\ a \in Applicants
      BY <1>1 DEF NominationInv, PhoneKept
    <3> QED
      BY <1>1, <2>1, <3>1
  <2>7. ASSUME NEW f \in Files PROVE HeldBy(s, f)' => HeldBy(s, f)
    BY <2>1, <2>2, <2>3 DEF HeldBy
  <2>8. ASSUME NEW f \in Files PROVE HoldingKept(s, f)'
    <3>1. HoldingKept(s, f)
      BY <1>2
    <3> QED
      BY <2>1, <2>7, <3>1 DEF HoldingKept, Readable, InDoubt
  <2> QED
    BY <1>1, <2>1, <2>3, <2>4, <2>5, <2>6, <2>7, <2>8, SubmissionMoves
<1>16. ASSUME NEW a \in Applicants, ReviewedPhone(a)
       PROVE  NominationInv'
  <2>1. /\ UNCHANGED <<hour, bucket, uploads, submissions, applications, archive, forms,
                       sweep, clerks, doubtful, purged>>
        /\ phones' = [phones EXCEPT ![a] = "reviewed"] /\ reviewed' = reviewed \cup {a}
    BY <1>16 DEF ReviewedPhone
  <2>2. DOMAIN phones' = Applicants /\ reviewed' \subseteq Applicants
    BY <1>1, <2>1
  <2>3. PhoneKept'
    <3> SUFFICES ASSUME NEW b \in reviewed \cup {a} PROVE phones'[b] = "reviewed"
      BY <2>1 DEF PhoneKept
    <3>1. b \in Applicants /\ (b # a => phones[b] = "reviewed")
      BY <1>1 DEF NominationInv, PhoneKept
    <3> QED
      BY <1>1, <2>1, <3>1
  <2>4. FormTypes'
    <3>1. FormTypes
      BY DEF NominationInv
    <3> QED
      BY <2>1, <2>2, <3>1 DEF FormTypes, Filed
  <2> QED
    BY <1>2, <2>1, <2>3, <2>4
       DEF NominationInv, SubmissionKept, Filed, ClerkKept, FileKept, Overdue, InDoubt, HoldingKept, HeldBy,
           Readable, HeldOnce
<1>17. ASSUME NEW c \in Clerks, NEW s \in Submissions,
              \/ Archive(c, s) \/ TakeOut(c, s) \/ HardDelete(c, s) \/ PutBack(c, s) \/ DropCopy(c, s)
              \/ PurgeArchived(c, s)
       PROVE  NominationInv'
  <2>1. UNCHANGED <<hour, bucket, uploads, submissions, forms, doubtful, phones, reviewed, sweep>>
    BY <1>17 DEF Archive, TakeOut, HardDelete, PutBack, DropCopy, PurgeArchived
  <2>2. Filed' \subseteq Filed /\ purged \subseteq purged'
    BY <1>17 DEF Archive, TakeOut, HardDelete, PutBack, DropCopy, PurgeArchived, Filed
  <2>3. \/ ClerkTo(c, "archived", s) \/ ClerkTo(c, "idle", s) \/ ClerkTo(c, "restored", s)
        \/ ClerkTo(c, "files", s) /\ s \in purged'
    BY <1>17 DEF Archive, TakeOut, HardDelete, PutBack, DropCopy, PurgeArchived
  <2>4. DOMAIN clerks' = Clerks /\ \A d \in Clerks : ClerkKept(d)'
    BY <2>2, <2>3, ClerkGoes
  <2> QED
    BY <2>1, <2>2, <2>4, ApplicationsMove
<1>18. ASSUME NEW c \in Clerks, NEW s \in Submissions, RemoveObject(c, s) \/ RemoveRecord(c, s)
       PROVE  NominationInv'
  <2>1. UNCHANGED <<hour, submissions, forms, doubtful, phones, reviewed, sweep, applications, archive, purged>>
    BY <1>18 DEF RemoveObject, RemoveRecord
  <2>2. s \in purged
    <3>1. clerks[c].pc \in {"files", "records"} /\ clerks[c].app = {s}
      BY <1>18 DEF RemoveObject, RemoveRecord
    <3> QED
      BY <1>2, <3>1 DEF ClerkKept
  <2>3. DOMAIN clerks' = Clerks /\ \A d \in Clerks : ClerkKept(d)'
    <3>1. ClerkTo(c, "records", s) \/ ClerkTo(c, "idle", s)
      BY <1>18 DEF RemoveObject, RemoveRecord
    <3> QED
      BY <2>1, <2>2, <3>1, ClerkGoes
  <2>4. ASSUME NEW f \in Files
        PROVE  /\ uploads'[f] = uploads[f] \/ (uploads'[f].status = "gone" /\ forms[s].file = f)
               /\ f \in bucket => f \in bucket' \/ forms[s].file = f
               /\ uploads'[f] \in Upload /\ uploads'[f].born = uploads[f].born
    <3>1. CASE RemoveObject(c, s)
      BY <1>1, <3>1 DEF RemoveObject
    <3>2. CASE RemoveRecord(c, s)
      <4>1. uploads'[f] = IF f \in RecordsOf(s) THEN [uploads[f] EXCEPT !.status = "gone"] ELSE uploads[f]
        BY <3>2 DEF RemoveRecord
      <4>2. [uploads[f] EXCEPT !.status = "gone"] \in Upload
        BY <1>1 DEF Upload
      <4>3. bucket' = bucket
        BY <3>2 DEF RemoveRecord
      <4> QED
        BY <1>1, <4>1, <4>2, <4>3 DEF RecordsOf, Upload
    <3> QED
      BY <1>18, <3>1, <3>2
  <2>5. uploads' \in [Files -> Upload]
    BY <1>1, <1>18, <2>4 DEF RemoveObject, RemoveRecord
  <2>6. ASSUME NEW f \in Files, forms[s].file = f, uploads[f].status = "pending" PROVE InDoubt(f)
    <3>1. submissions[s].file = f
      BY <1>2, <2>6 DEF SubmissionKept
    <3>2. CASE s \in doubtful
      BY <2>6, <3>2 DEF InDoubt
    <3>3. CASE s \notin doubtful
      BY <1>2, <2>6, <3>1, <3>3 DEF HoldingKept, HeldBy
    <3> QED
      BY <3>2, <3>3
  <2>7. ASSUME NEW f \in Files PROVE FileKept(f)'
    <3>1. FileKept(f) /\ (InDoubt(f) <=> InDoubt(f)') /\ (Overdue(f) <=> Overdue(f)')
      BY <1>2, <2>1, <2>4 DEF InDoubt, Overdue
    <3> QED
      BY <2>1, <2>4, <2>6, <3>1 DEF FileKept
  <2>8. ASSUME NEW t \in Submissions, NEW f \in Files, HeldBy(t, f)
        PROVE  /\ uploads'[f].status \in {"attached", "gone"}
               /\ t \notin purged /\ ~InDoubt(f) => Readable(f)'
    <3>1. HoldingKept(t, f)
      BY <1>2
    <3>2. CASE forms[s].file = f
      <4>1. submissions[s].file = f
        BY <1>2, <3>2 DEF SubmissionKept
      <4>2. s \in doubtful => InDoubt(f)
        BY <3>2 DEF InDoubt
      <4>3. s \notin doubtful => t = s
        BY <2>8, <3>2, <4>1 DEF NominationInv, HeldOnce, HeldBy
      <4> QED
        BY <2>2, <2>4, <2>8, <3>1, <4>2, <4>3 DEF HoldingKept
    <3>3. CASE forms[s].file # f
      BY <2>4, <2>8, <3>1, <3>3 DEF HoldingKept, Readable
    <3> QED
      BY <3>2, <3>3
  <2> QED
    BY <1>1, <2>1, <2>3, <2>5, <2>7, <2>8, FilesMove
<1> QED
  BY <1>4, <1>5, <1>6, <1>7, <1>8, <1>9, <1>10, <1>11, <1>12, <1>13, <1>14, <1>15, <1>16, <1>17, <1>18
     DEF NominationNext

(* Between uploads, claims, sweeps, deletions and restorations by several people, *)
(* no application loses its signed form, no form serves two applications, one     *)
(* that had to be there is, and a reviewed phone number stays.                    *)
THEOREM FormsHold == NominationSpec => []NominationSound
<1>1. NominationInv => NominationSound
  <2> SUFFICES ASSUME NominationInv PROVE NominationSound
    OBVIOUS
  <2>1. /\ applications \cup archive \cup purged \subseteq Submissions /\ forms \in [Submissions -> Form]
        /\ \A s \in Submissions : SubmissionKept(s)
        /\ \A s \in Submissions, f \in Files : HoldingKept(s, f)
    BY DEF NominationInv, FormTypes, Filed
  <2>2. ASSUME NEW s \in applications \cup archive, s \notin doubtful, NEW f \in Files, forms[s].file = f
        PROVE  s \in Submissions /\ HeldBy(s, f)
    <3>1. s \in Submissions
      BY <2>1
    <3>2. forms[s].file # NoFile
      BY <2>2, NominationAssumption
    <3> QED
      BY <2>1, <2>2, <3>1, <3>2 DEF SubmissionKept, HeldBy
  <2>3. ASSUME NEW s \in applications \cup archive, forms[s].file # NoFile PROVE forms[s].file \in Files
    BY <2>1, <2>3 DEF Form
  <2>4. FormKept
    <3> SUFFICES ASSUME NEW s \in (applications \cup archive) \ purged,
                        forms[s].file # NoFile, ~InDoubt(forms[s].file)
                 PROVE  Readable(forms[s].file)
      BY DEF FormKept
    <3>1. PICK f \in Files : forms[s].file = f
      BY <2>3
    <3>2. s \notin doubtful
      BY DEF InDoubt
    <3>3. s \in Submissions /\ HeldBy(s, f)
      BY <2>2, <3>1, <3>2
    <3> QED
      BY <2>1, <3>1, <3>3 DEF HoldingKept
  <2>5. OneFormEach
    <3> SUFFICES ASSUME NEW s \in (applications \cup archive) \ doubtful, NEW t \in (applications \cup archive) \ doubtful,
                        forms[s].file # NoFile, forms[s].file = forms[t].file
                 PROVE  s = t
      BY DEF OneFormEach
    <3>1. PICK f \in Files : forms[s].file = f
      BY <2>3
    <3>2. HeldBy(s, f) /\ HeldBy(t, f) /\ s \in Submissions /\ t \in Submissions
      BY <2>2, <3>1
    <3> QED
      BY <3>2 DEF NominationInv, HeldOnce
  <2>6. RequiredIsThere
    BY <2>1 DEF RequiredIsThere, SubmissionKept
  <2> QED
    BY <2>4, <2>5, <2>6 DEF NominationInv, NominationSound
<1> QED
  BY <1>1, NominationInvInit, NominationInvStep, PTL DEF NominationSpec

-----------------------------------------------------------------------------
(* Release of the results (ResultsRelease).                                    *)

Values == Modes \cup Statuses \cup {"none"}

SettingCopy == [value : Values, until : Nat]
KeptResult == [answer : Answer, until : Nat]
PollRecord == [pc : Stages, at : Servers \cup {Nowhere}, kind : Kinds \cup {"none"}, admin : BOOLEAN,
               arrived : Nat, fetched : Values, mode : Values, released : BOOLEAN, answer : Answer]

ReleaseTypes ==
    /\ moment \in Nat /\ (moment = 1 \/ moment \leq Seconds)
    /\ ballots \in Nat /\ changed.at \in Nat /\ changed.at \leq moment
    /\ status \in Statuses /\ mode \in Modes
    /\ DOMAIN releaseSettings = Servers
    /\ \A p \in Servers : releaseSettings[p] \in [Documents -> SettingCopy]
    /\ DOMAIN results = Servers
    /\ \A p \in Servers : results[p] \in [PollKeys -> KeptResult]
    /\ polls \in [Polls -> PollRecord]
    /\ earlier \in [1 .. Seconds -> Nat]

(* What was in the box when a second began, for every second so far.           *)
EarlierKept == \A s \in 1 .. Seconds : earlier[s] \leq ballots

(* No older than the time results are kept, to who comes at moment t.          *)
Recent(n, t) == \A s \in 1 .. Seconds : s + ResultsTTL \leq t => earlier[s] \leq n

(* A copy that is good is of the setting in force, or runs out in time.        *)
CopyFits(c, d) ==
    /\ c.until \leq moment + SettingsTTL
    /\ Fresh(c) => c.value = Current(d) \/ c.until \leq changed.at + SettingsTTL

ResultFits(c, k) ==
    /\ c.until \leq moment + ResultsTTL
    /\ c.answer.tally => c.answer.turnout \leq c.answer.count /\ Recent(c.answer.count, c.until)
    /\ Fresh(c) /\ k = "released" => c.answer.tally
    /\ Fresh(c) /\ k = "withheld" => ~c.answer.tally

(* Whoever came before the change had run through the copies may be answered   *)
(* by the rule of before.                                                      *)
Early(r) == r.arrived < changed.at + SettingsTTL

PollFits(r) ==
    /\ r.pc # "idle" => r.at \in Servers /\ r.arrived \leq moment
    /\ r.pc \in {"idle", "security", "config", "turnout", "count"} => ~r.answer.tally
    /\ r.fetched # "none" => r.pc \in Documents /\ (r.fetched = Current(r.pc) \/ changed.at = moment)
    /\ r.pc = "config" => r.mode = mode \/ Early(r)
    /\ r.kind = "results" /\ ~r.admin /\ r.pc \in {"turnout", "count", "store", "answered"} =>
          (r.released <=> Released(mode, status)) \/ Early(r)
    /\ r.pc = "count" => r.answer.turnout \leq ballots
    /\ r.pc \in {"store", "answered"} =>
          /\ r.answer.tally => r.released /\ r.answer.turnout \leq r.answer.count
          /\ r.kind = "results" \/ r.pc = "store" => (r.answer.tally <=> r.released)
    /\ r.pc = "store" /\ r.answer.tally => Recent(r.answer.count, moment + ResultsTTL)
    /\ r.pc = "answered" /\ r.answer.tally => Recent(r.answer.count, r.arrived)

ReleaseInv ==
    /\ ReleaseTypes
    /\ EarlierKept
    /\ \A p \in Servers, d \in Documents : CopyFits(releaseSettings[p][d], d)
    /\ \A p \in Servers, k \in PollKeys : ResultFits(results[p][k], k)
    /\ \A q \in Polls : PollFits(polls[q])

LEMMA NoPollIsOne == NoPoll \in PollRecord /\ NoPoll.pc = "idle" /\ ~NoPoll.answer.tally
                     /\ NoPoll.fetched = "none" /\ NoPoll.kind = "none"
  BY DEF NoPoll, PollRecord, NoAnswer, Answer, Stages, Values

LEMMA NoPollFits == PollFits(NoPoll)
  BY NoPollIsOne DEF PollFits

LEMMA EmptyFits ==
    ASSUME ReleaseInv
    PROVE  /\ \A d \in Documents : CopyFits(NoCopy, d)
           /\ \A k \in PollKeys : ResultFits(NoResult, k)
<1>1. moment \in Nat /\ SettingsTTL \in Nat /\ ResultsTTL \in Nat /\ NoCopy.until = 0
      /\ NoResult.until = 0 /\ ~NoResult.answer.tally
  BY ReleaseAssumption DEF ReleaseInv, ReleaseTypes, NoCopy, NoResult, NoAnswer
<1> QED
  BY <1>1 DEF CopyFits, ResultFits, Fresh

LEMMA EmptyTypes == NoCopy \in SettingCopy /\ NoResult \in KeptResult
  BY DEF NoCopy, SettingCopy, Values, NoResult, KeptResult, NoAnswer, Answer

LEMMA ReleaseInvInit == ReleaseInit => ReleaseInv
<1> SUFFICES ASSUME ReleaseInit PROVE ReleaseInv
  OBVIOUS
<1> HIDE DEF NoPoll, NoCopy, NoResult
<1>1. /\ moment = 1 /\ status \in {"open", "closed"} /\ mode = "live" /\ ballots = 0
      /\ releaseSettings = [p \in Servers |-> [d \in Documents |-> NoCopy]]
      /\ results = [p \in Servers |-> [k \in PollKeys |-> NoResult]]
      /\ polls = [q \in Polls |-> NoPoll]
      /\ changed = [at |-> 0, times |-> 0]
      /\ earlier = [s \in 1 .. Seconds |-> 0]
  BY DEF ReleaseInit
<1>2. ReleaseTypes
  BY <1>1, EmptyTypes, NoPollIsOne, ReleaseAssumption DEF ReleaseTypes, Statuses
<1>3. EarlierKept
  BY <1>1 DEF EarlierKept
<1>4. NoCopy.until = 0 /\ NoResult.until = 0 /\ ~NoResult.answer.tally /\ {SettingsTTL, ResultsTTL} \subseteq Nat
  BY ReleaseAssumption DEF NoCopy, NoResult, NoAnswer
<1>5. ASSUME NEW p \in Servers, NEW d \in Documents PROVE CopyFits(releaseSettings[p][d], d)
  BY <1>1, <1>4 DEF CopyFits, Fresh
<1>6. ASSUME NEW p \in Servers, NEW k \in PollKeys PROVE ResultFits(results[p][k], k)
  BY <1>1, <1>4 DEF ResultFits, Fresh
<1>7. ASSUME NEW q \in Polls PROVE PollFits(polls[q])
  BY <1>1, NoPollFits
<1> QED
  BY <1>2, <1>3, <1>5, <1>6, <1>7 DEF ReleaseInv

(* One request goes on; what the servers keep changes to what fits.            *)
LEMMA PollMoves ==
    ASSUME ReleaseInv, NEW q \in Polls, NEW r \in PollRecord,
           polls' = [polls EXCEPT ![q] = r], PollFits(r),
           UNCHANGED <<moment, status, mode, ballots, changed, earlier>>,
           DOMAIN releaseSettings' = Servers, \A p \in Servers : releaseSettings'[p] \in [Documents -> SettingCopy],
           DOMAIN results' = Servers, \A p \in Servers : results'[p] \in [PollKeys -> KeptResult],
           \A p \in Servers, d \in Documents : CopyFits(releaseSettings'[p][d], d),
           \A p \in Servers, k \in PollKeys : ResultFits(results'[p][k], k)
    PROVE  ReleaseInv'
<1>1. ReleaseTypes'
  BY DEF ReleaseInv, ReleaseTypes
<1>2. EarlierKept'
  BY DEF ReleaseInv, EarlierKept
<1>3. ASSUME NEW p \in Servers, NEW d \in Documents PROVE CopyFits(releaseSettings[p][d], d)'
  <2>1. CopyFits(releaseSettings'[p][d], d)
    OBVIOUS
  <2> QED
    BY <2>1 DEF CopyFits, Fresh, Current
<1>4. ASSUME NEW p \in Servers, NEW k \in PollKeys PROVE ResultFits(results[p][k], k)'
  <2>1. ResultFits(results'[p][k], k)
    OBVIOUS
  <2> QED
    BY <2>1 DEF ResultFits, Fresh, Recent
<1>5. ASSUME NEW o \in Polls PROVE PollFits(polls[o])'
  <2>1. PollFits(polls'[o])
    BY DEF ReleaseInv, ReleaseTypes
  <2> QED
    BY <2>1 DEF PollFits, Current, Early, Released, Ended, Recent
<1> QED
  BY <1>1, <1>2, <1>3, <1>4, <1>5 DEF ReleaseInv

LEMMA PollMovesAlone ==
    ASSUME ReleaseInv, NEW q \in Polls, NEW r \in PollRecord,
           polls' = [polls EXCEPT ![q] = r], PollFits(r),
           UNCHANGED <<moment, status, mode, ballots, releaseSettings, results, changed, earlier>>
    PROVE  ReleaseInv'
<1>1. /\ DOMAIN releaseSettings' = Servers /\ \A p \in Servers : releaseSettings'[p] \in [Documents -> SettingCopy]
      /\ DOMAIN results' = Servers /\ \A p \in Servers : results'[p] \in [PollKeys -> KeptResult]
      /\ \A p \in Servers, d \in Documents : CopyFits(releaseSettings'[p][d], d)
      /\ \A p \in Servers, k \in PollKeys : ResultFits(results'[p][k], k)
  BY DEF ReleaseInv, ReleaseTypes
<1> QED
  BY <1>1, PollMoves

(* What a request becomes when it has learnt a setting.                        *)
LEMMA TookFits ==
    ASSUME ReleaseInv, NEW q \in Polls, NEW d \in Documents, NEW v \in Values, Took(q, d, v),
           polls[q].pc = d, v = Current(d) \/ Early(polls[q])
    PROVE  \E r \in PollRecord : polls' = [polls EXCEPT ![q] = r] /\ PollFits(r)
<1> DEFINE p == polls[q]
<1>1. p \in PollRecord /\ PollFits(p) /\ p.pc = d
  BY DEF ReleaseInv, ReleaseTypes
<1>2. p.at \in Servers /\ p.arrived \in Nat /\ p.arrived \leq moment /\ ~p.answer.tally
  BY <1>1 DEF PollFits, Documents, PollRecord
<1>3. CASE d = "config" /\ p.kind = "status"
  BY <1>3, NoPollIsOne, NoPollFits DEF Took
<1>4. CASE d = "security"
  <2> DEFINE r == [p EXCEPT !.pc = "config", !.mode = v, !.fetched = "none"]
  <2>1. polls' = [polls EXCEPT ![q] = r]
    BY <1>4 DEF Took
  <2>2. /\ r \in PollRecord /\ r.pc = "config" /\ r.mode = v /\ r.fetched = "none" /\ r.at = p.at
        /\ r.arrived = p.arrived /\ r.answer = p.answer
    BY <1>1 DEF PollRecord, Values, Stages
  <2> HIDE DEF r
  <2>3. PollFits(r)
    BY <1>2, <1>4, <2>2 DEF PollFits, Early, Current
  <2> QED
    BY <2>1, <2>2, <2>3
<1>5. CASE d = "config" /\ p.kind # "status"
  <2> DEFINE yes == Decided(p, v)
             kept == results[p.at][KeyOf(p.kind, yes)]
             asks == p.kind = "results" \/ (p.kind = "band" /\ yes)
             r == [p EXCEPT !.pc = IF asks /\ ~Fresh(kept) THEN "turnout" ELSE "answered",
                            !.mode = "none", !.fetched = "none", !.released = yes,
                            !.answer = IF asks /\ Fresh(kept) THEN kept.answer ELSE NoAnswer]
  <2>1. polls' = [polls EXCEPT ![q] = r]
    BY <1>5 DEF Took
  <2>2. yes \in BOOLEAN
    BY <1>1 DEF Decided, Released, PollRecord
  <2>3. p.kind = "results" /\ ~p.admin => (yes <=> Released(mode, status)) \/ Early(p)
    <3>1. v = status \/ Early(p)
      BY <1>5 DEF Current
    <3>2. p.mode = mode \/ Early(p)
      BY <1>1, <1>5 DEF PollFits
    <3> QED
      BY <3>1, <3>2 DEF Decided
  <2>4. /\ KeyOf(p.kind, yes) \in PollKeys
        /\ p.kind = "results" => KeyOf(p.kind, yes) = IF yes THEN "released" ELSE "withheld"
    BY DEF KeyOf, PollKeys
  <2>5. kept \in KeptResult /\ ResultFits(kept, KeyOf(p.kind, yes))
    BY <1>2, <2>4 DEF ReleaseInv, ReleaseTypes
  <2>6. asks => p.kind = "results" \/ yes
    OBVIOUS
  <2>7. asks \in BOOLEAN /\ (p.kind = "results" => asks)
    OBVIOUS
  <2>8. /\ r \in PollRecord /\ r.pc = IF asks /\ ~Fresh(kept) THEN "turnout" ELSE "answered"
        /\ r.fetched = "none" /\ r.released = yes /\ r.at = p.at /\ r.arrived = p.arrived
        /\ r.kind = p.kind /\ r.admin = p.admin
        /\ r.answer = IF asks /\ Fresh(kept) THEN kept.answer ELSE NoAnswer
    <3> DEFINE answer == IF asks /\ Fresh(kept) THEN kept.answer ELSE NoAnswer
               pc == IF asks /\ ~Fresh(kept) THEN "turnout" ELSE "answered"
    <3>1. answer \in Answer
      BY <2>5 DEF KeptResult, NoAnswer, Answer
    <3>2. pc \in Stages
      BY DEF Stages
    <3>3. r = [p EXCEPT !.pc = pc, !.mode = "none", !.fetched = "none", !.released = yes, !.answer = answer]
      OBVIOUS
    <3> HIDE DEF answer, pc, yes, asks, kept, r
    <3>4. /\ r \in PollRecord /\ r.pc = pc /\ r.fetched = "none" /\ r.released = yes /\ r.at = p.at
          /\ r.arrived = p.arrived /\ r.kind = p.kind /\ r.admin = p.admin /\ r.answer = answer
      BY <1>1, <2>2, <3>1, <3>2, <3>3 DEF PollRecord, Values
    <3> QED
      BY <3>4 DEF answer, pc
  <2> HIDE DEF r, asks, kept, yes
  <2>9. CASE asks /\ Fresh(kept)
    <3>1. r.pc = "answered" /\ r.answer = kept.answer
      BY <2>8, <2>9
    <3>2. kept.answer.tally => kept.answer.turnout \leq kept.answer.count /\ Recent(kept.answer.count, kept.until)
      BY <2>5 DEF ResultFits
    <3>3. kept.answer.tally => Recent(kept.answer.count, p.arrived)
      <4>1. p.arrived \leq kept.until
        BY <1>2, <2>5, <2>9 DEF Fresh, KeptResult, ReleaseInv, ReleaseTypes
      <4>2. kept.until \in Nat /\ p.arrived \in Nat /\ ResultsTTL \in Nat
        BY <1>2, <2>5, ReleaseAssumption DEF KeptResult
      <4> QED
        BY <3>2, <4>1, <4>2 DEF Recent
    <3>4. /\ p.kind = "results" => (kept.answer.tally <=> yes)
          /\ kept.answer.tally => yes
      <4>1. kept.answer.tally \in BOOLEAN
        BY <2>5 DEF KeptResult, Answer
      <4> QED
        BY <2>2, <2>4, <2>5, <2>6, <2>9, <4>1 DEF ResultFits
    <3>5. Early(r) <=> Early(p)
      BY <2>8 DEF Early
    <3>6. PollFits(r)
      BY <1>2, <2>3, <2>8, <3>1, <3>2, <3>3, <3>4, <3>5 DEF PollFits
    <3> QED
      BY <2>1, <2>8, <3>6
  <2>10. CASE ~(asks /\ Fresh(kept))
    <3>1. r.answer = NoAnswer /\ ~r.answer.tally
      BY <2>8, <2>10 DEF NoAnswer
    <3>2. p.kind = "results" => r.pc = "turnout"
      BY <2>7, <2>8, <2>10
    <3>3. r.pc \in {"turnout", "answered"}
      BY <2>8
    <3>4. Early(r) <=> Early(p)
      BY <2>8 DEF Early
    <3>5. PollFits(r)
      BY <1>2, <2>3, <2>8, <3>1, <3>2, <3>3, <3>4 DEF PollFits
    <3> QED
      BY <2>1, <2>8, <3>5
  <2> QED
    BY <2>9, <2>10
<1> QED
  BY <1>3, <1>4, <1>5 DEF Documents

LEMMA ReleaseInvStep == ReleaseInv /\ [ReleaseNext]_releaseVars => ReleaseInv'
<1> SUFFICES ASSUME ReleaseInv, [ReleaseNext]_releaseVars PROVE ReleaseInv'
  OBVIOUS
<1>0. {SettingsTTL, ResultsTTL} \subseteq Nat \ {0} /\ Seconds \in Nat
  BY ReleaseAssumption
<1>1. /\ moment \in Nat /\ (moment = 1 \/ moment \leq Seconds) /\ ballots \in Nat /\ changed.at \in Nat /\ changed.at \leq moment
      /\ status \in Statuses /\ mode \in Modes
      /\ DOMAIN releaseSettings = Servers
      /\ \A p \in Servers : releaseSettings[p] \in [Documents -> SettingCopy]
      /\ DOMAIN results = Servers
      /\ \A p \in Servers : results[p] \in [PollKeys -> KeptResult]
      /\ polls \in [Polls -> PollRecord]
      /\ earlier \in [1 .. Seconds -> Nat]
  BY DEF ReleaseInv, ReleaseTypes
<1>2. /\ EarlierKept
      /\ \A p \in Servers, d \in Documents : CopyFits(releaseSettings[p][d], d)
      /\ \A p \in Servers, k \in PollKeys : ResultFits(results[p][k], k)
      /\ \A q \in Polls : PollFits(polls[q])
  BY DEF ReleaseInv
<1>3. CASE UNCHANGED releaseVars
  <2>1. ReleaseTypes'
    <3>1. ReleaseTypes
      BY DEF ReleaseInv
    <3> QED
      BY <1>3, <3>1 DEF ReleaseTypes, releaseVars
  <2>2. /\ EarlierKept'
        /\ \A p \in Servers, d \in Documents : CopyFits(releaseSettings[p][d], d)'
        /\ \A p \in Servers, k \in PollKeys : ResultFits(results[p][k], k)'
    BY <1>2, <1>3 DEF releaseVars, EarlierKept, CopyFits, ResultFits, Fresh, Current, Recent
  <2>3. ASSUME NEW q \in Polls PROVE PollFits(polls[q])'
    <3>1. PollFits(polls[q])
      BY <1>2
    <3> QED
      BY <1>3, <3>1 DEF releaseVars, PollFits, Current, Early, Released, Ended, Recent
  <2> QED
    BY <2>1, <2>2, <2>3 DEF ReleaseInv
<1>4. CASE MomentPasses
  <2>1. /\ UNCHANGED <<status, mode, ballots, polls, changed>>
        /\ moment < Seconds /\ moment' = moment + 1
        /\ \A q \in Polls : ~Waiting(q)
        /\ earlier' = [earlier EXCEPT ![moment + 1] = ballots]
        /\ releaseSettings' = [p \in Servers |-> [d \in Documents |->
                IF releaseSettings[p][d].until \leq moment THEN NoCopy ELSE releaseSettings[p][d]]]
        /\ results' = [p \in Servers |-> [k \in PollKeys |->
                IF results[p][k].until \leq moment THEN NoResult ELSE results[p][k]]]
    BY <1>4 DEF MomentPasses
  <2>2. /\ earlier' \in [1 .. Seconds -> Nat]
        /\ \A s \in 1 .. Seconds : earlier'[s] = IF s = moment + 1 THEN ballots ELSE earlier[s]
    BY <1>1, <2>1
  <2>3. ReleaseTypes'
    <3>1. \A p \in Servers : releaseSettings'[p] \in [Documents -> SettingCopy]
      BY <1>1, <2>1, EmptyTypes
    <3>2. \A p \in Servers : results'[p] \in [PollKeys -> KeptResult]
      BY <1>1, <2>1, EmptyTypes
    <3> QED
      BY <1>1, <2>1, <2>2, <3>1, <3>2 DEF ReleaseTypes
  <2>4. EarlierKept'
    BY <1>1, <1>2, <2>1, <2>2 DEF EarlierKept
  <2>5. ASSUME NEW n \in Nat, NEW t \in Nat, t \leq moment + ResultsTTL, Recent(n, t) PROVE Recent(n, t)'
    BY <1>0, <1>1, <2>2, <2>5 DEF Recent
  <2>6. ASSUME NEW p \in Servers, NEW d \in Documents PROVE CopyFits(releaseSettings[p][d], d)'
    <3>1. CopyFits(releaseSettings[p][d], d) /\ releaseSettings[p][d].until \in Nat
      BY <1>1, <1>2 DEF SettingCopy
    <3>2. \/ releaseSettings'[p][d] = releaseSettings[p][d]
          \/ releaseSettings'[p][d] = NoCopy
      BY <2>1
    <3>3. NoCopy.until = 0
      BY DEF NoCopy
    <3> QED
      BY <1>0, <1>1, <2>1, <3>1, <3>2, <3>3 DEF CopyFits, Fresh, Current
  <2>7. ASSUME NEW p \in Servers, NEW k \in PollKeys PROVE ResultFits(results[p][k], k)'
    <3> DEFINE c == results[p][k]
    <3>1. ResultFits(c, k) /\ c \in KeptResult
      BY <1>1, <1>2
    <3>2. c.until \in Nat /\ c.answer.count \in Nat
      BY <3>1 DEF KeptResult, Answer
    <3>3. results'[p][k] = c \/ results'[p][k] = NoResult
      BY <2>1
    <3>4. NoResult.until = 0 /\ ~NoResult.answer.tally
      BY DEF NoResult, NoAnswer
    <3>5. CASE results'[p][k] = c
      <4>1. c.answer.tally => Recent(c.answer.count, c.until)'
        <5>1. PICK n \in Nat, t \in Nat : n = c.answer.count /\ t = c.until
          BY <3>2
        <5>2. c' = c
          BY <3>5
        <5> QED
          BY <2>5, <3>1, <5>1, <5>2 DEF ResultFits
      <4> QED
        BY <1>0, <1>1, <2>1, <3>1, <3>2, <3>5, <4>1 DEF ResultFits, Fresh
    <3>6. CASE results'[p][k] = NoResult
      BY <1>0, <1>1, <2>1, <3>4, <3>6 DEF ResultFits, Fresh
    <3> QED
      BY <3>3, <3>5, <3>6
  <2>8. ASSUME NEW q \in Polls PROVE PollFits(polls[q])'
    <3>1. PICK r \in PollRecord : r = polls[q]
      BY <1>1
    <3>2. PollFits(r) /\ r = polls'[q]
      BY <1>2, <2>1, <3>1
    <3>3. r.fetched = "none" /\ r.pc \notin {"count", "store"}
      BY <2>1, <3>1 DEF Waiting
    <3>4. r.arrived \in Nat /\ r.answer.count \in Nat
      BY <3>1 DEF PollRecord, Answer
    <3>5. r.pc = "answered" => r.arrived \leq moment
      BY <3>2 DEF PollFits
    <3>6. r.pc = "answered" /\ Recent(r.answer.count, r.arrived) => Recent(r.answer.count, r.arrived)'
      BY <1>0, <1>1, <2>5, <3>4, <3>5
    <3>7. (Released(mode, status) <=> Released(mode, status)') /\ (Early(r) <=> Early(r)')
      BY <2>1 DEF Released, Ended, Early
    <3>8. PollFits(r)'
      BY <1>1, <2>1, <3>2, <3>3, <3>4, <3>6, <3>7 DEF PollFits
    <3> QED
      BY <3>2, <3>8
  <2> QED
    BY <2>3, <2>4, <2>6, <2>7, <2>8 DEF ReleaseInv
<1>5. CASE Cast
  <2>1. /\ UNCHANGED <<moment, status, mode, releaseSettings, results, polls, changed, earlier>>
        /\ ballots' = ballots + 1
    BY <1>5 DEF Cast
  <2>2. ReleaseTypes'
    BY <1>1, <2>1 DEF ReleaseTypes
  <2>3. EarlierKept'
    BY <1>1, <1>2, <2>1 DEF EarlierKept
  <2>4. /\ \A p \in Servers, d \in Documents : CopyFits(releaseSettings[p][d], d)'
        /\ \A p \in Servers, k \in PollKeys : ResultFits(results[p][k], k)'
    BY <1>2, <2>1 DEF CopyFits, ResultFits, Fresh, Current, Recent
  <2>5. ASSUME NEW q \in Polls PROVE PollFits(polls[q])'
    <3>1. PollFits(polls[q]) /\ polls'[q] = polls[q]
      BY <1>2, <2>1
    <3>2. polls[q].answer.turnout \in Nat
      BY <1>1 DEF PollRecord, Answer
    <3>3. polls[q].answer.turnout \leq ballots => polls[q].answer.turnout \leq ballots'
      BY <1>1, <2>1, <3>2
    <3> QED
      BY <2>1, <3>1, <3>3 DEF PollFits, Current, Early, Released, Ended, Recent
  <2> QED
    BY <2>2, <2>3, <2>4, <2>5 DEF ReleaseInv
<1>6. ASSUME NEW p \in Servers \cup {Elsewhere},
             (\E s \in Statuses : SetStatus(p, s)) \/ (\E m \in Modes : SetMode(p, m))
      PROVE  ReleaseInv'
  <2>1. /\ UNCHANGED <<moment, ballots, polls, earlier>>
        /\ changed' = [at |-> moment, times |-> changed.times + 1]
        /\ status' \in Statuses /\ mode' \in Modes
        /\ Forgets(p)
    BY <1>1, <1>6 DEF SetStatus, SetMode, Changing
  <2>2. changed'.at = moment
    BY <2>1
  <2>3. ASSUME NEW o \in Servers
        PROVE  /\ releaseSettings'[o] = releaseSettings[o] \/ releaseSettings'[o] = [d \in Documents |-> NoCopy]
               /\ results'[o] = results[o] \/ results'[o] = [k \in PollKeys |-> NoResult]
    BY <1>1, <2>1 DEF Forgets
  <2>4. DOMAIN releaseSettings' = Servers /\ DOMAIN results' = Servers
    BY <1>1, <2>1 DEF Forgets
  <2>5. ReleaseTypes'
    <3>1. \A o \in Servers : releaseSettings'[o] \in [Documents -> SettingCopy]
      BY <1>1, <2>3, EmptyTypes
    <3>2. \A o \in Servers : results'[o] \in [PollKeys -> KeptResult]
      BY <1>1, <2>3, EmptyTypes
    <3> QED
      BY <1>1, <2>1, <2>2, <2>4, <3>1, <3>2 DEF ReleaseTypes
  <2>6. EarlierKept'
    BY <1>2, <2>1 DEF EarlierKept
  <2>7. ASSUME NEW o \in Servers, NEW d \in Documents PROVE CopyFits(releaseSettings[o][d], d)'
    <3>1. PICK c \in SettingCopy : c = releaseSettings'[o][d]
      BY <2>5 DEF ReleaseTypes
    <3>2. CopyFits(c, d)
      BY <1>2, <2>3, <3>1, EmptyFits
    <3>3. c.until \leq changed'.at + SettingsTTL
      BY <2>2, <3>2 DEF CopyFits
    <3> QED
      BY <2>1, <3>1, <3>2, <3>3 DEF CopyFits
  <2>8. ASSUME NEW o \in Servers, NEW k \in PollKeys PROVE ResultFits(results[o][k], k)'
    <3>1. ResultFits(results'[o][k], k)
      BY <1>2, <2>3, EmptyFits
    <3> QED
      BY <2>1, <3>1 DEF ResultFits, Fresh, Recent
  <2>9. ASSUME NEW q \in Polls PROVE PollFits(polls[q])'
    <3>1. PollFits(polls[q]) /\ polls'[q] = polls[q] /\ polls[q].arrived \in Nat
      BY <1>1, <1>2, <2>1 DEF PollRecord
    <3>2. polls[q].pc # "idle" => Early(polls[q])'
      BY <1>0, <1>1, <2>1, <2>2, <3>1 DEF PollFits, Early
    <3> QED
      BY <2>1, <2>2, <3>1, <3>2 DEF PollFits, Recent
  <2> QED
    BY <2>5, <2>6, <2>7, <2>8, <2>9 DEF ReleaseInv
<1>7. ASSUME NEW q \in Polls, NEW p \in Servers,
             \/ \E a \in BOOLEAN : AskResults(q, p, a)
             \/ AskBand(q, p) \/ AskStatus(q, p)
             \/ AskReport(q, p) \/ AskStandings(q, p) \/ AskDashboard(q, p) \/ AskUndervote(q, p)
      PROVE  ReleaseInv'
  <2>1. PICK k \in Kinds, a \in BOOLEAN, pc \in {"security", "turnout"} :
            Asks(q, p, k, a, pc) /\ (pc = "turnout" => k = "exact")
    <3>1. \/ \E a \in BOOLEAN : Asks(q, p, "results", a, "security")
          \/ Asks(q, p, "band", FALSE, "security") \/ Asks(q, p, "status", FALSE, "security")
          \/ Asks(q, p, "exact", TRUE, "turnout")
      BY <1>7 DEF AskResults, AskBand, AskStatus, AskReport, AskStandings, AskDashboard, AskUndervote
    <3>2. ASSUME NEW k, NEW a, NEW pc, Asks(q, p, k, a, pc) PROVE k \in Kinds
      BY <3>2 DEF Asks
    <3> QED
      BY <3>1, <3>2
  <2> DEFINE r == [NoPoll EXCEPT !.pc = pc, !.at = p, !.kind = k, !.admin = a,
                                 !.arrived = moment, !.released = k = "exact"]
  <2>2. /\ polls' = [polls EXCEPT ![q] = r]
        /\ UNCHANGED <<moment, status, mode, ballots, releaseSettings, results, changed, earlier>>
    BY <2>1 DEF Asks
  <2>3. /\ r \in PollRecord /\ r.pc = pc /\ r.at = p /\ r.arrived = moment /\ r.fetched = "none"
        /\ r.kind = k /\ ~r.answer.tally
    BY <1>1, NoPollIsOne DEF PollRecord, Stages
  <2> HIDE DEF r
  <2>4. PollFits(r)
    BY <1>1, <2>1, <2>3 DEF PollFits
  <2> QED
    BY <2>2, <2>3, <2>4, PollMovesAlone
<1>8. ASSUME NEW q \in Polls, NEW d \in Documents, UseCopy(q, d)
      PROVE  ReleaseInv'
  <2> DEFINE p == polls[q]
             c == releaseSettings[p.at][d]
  <2>1. /\ UNCHANGED <<moment, status, mode, ballots, releaseSettings, results, changed, earlier>>
        /\ p.pc = d /\ Fresh(c) /\ Took(q, d, c.value)
    BY <1>8 DEF UseCopy
  <2>2. PollFits(p) /\ p.arrived \in Nat /\ p.at \in Servers /\ p.arrived \leq moment
    BY <1>1, <1>2, <2>1 DEF PollFits, PollRecord, Documents
  <2>3. CopyFits(c, d) /\ c.value \in Values /\ c.until \in Nat
    BY <1>1, <1>2, <2>2 DEF SettingCopy
  <2>4. c.value = Current(d) \/ Early(p)
    BY <1>0, <1>1, <2>1, <2>2, <2>3 DEF CopyFits, Fresh, Early
  <2>5. \E r \in PollRecord : polls' = [polls EXCEPT ![q] = r] /\ PollFits(r)
    BY <2>1, <2>3, <2>4, TookFits
  <2> QED
    BY <2>1, <2>5, PollMovesAlone
<1>9. ASSUME NEW q \in Polls, NEW d \in Documents, Fetch(q, d)
      PROVE  ReleaseInv'
  <2> DEFINE p == polls[q]
             r == [p EXCEPT !.fetched = Current(d)]
  <2>1. /\ UNCHANGED <<moment, status, mode, ballots, releaseSettings, results, changed, earlier>>
        /\ p.pc = d /\ polls' = [polls EXCEPT ![q] = r]
    BY <1>9 DEF Fetch
  <2>2. PollFits(p) /\ p \in PollRecord
    BY <1>1, <1>2
  <2>3. /\ r \in PollRecord /\ r.pc = p.pc /\ r.at = p.at /\ r.arrived = p.arrived /\ r.mode = p.mode
        /\ r.kind = p.kind /\ r.answer = p.answer /\ r.fetched = Current(d)
    BY <1>1, <2>2 DEF PollRecord, Values, Current
  <2> HIDE DEF r
  <2>4. PollFits(r)
    BY <2>1, <2>2, <2>3 DEF PollFits, Documents, Early
  <2> QED
    BY <2>1, <2>3, <2>4, PollMovesAlone
<1>10. ASSUME NEW q \in Polls, NEW d \in Documents, Keep(q, d)
       PROVE  ReleaseInv'
  <2> DEFINE p == polls[q]
             c == [value |-> p.fetched, until |-> moment + SettingsTTL]
  <2>1. /\ UNCHANGED <<moment, status, mode, ballots, results, changed, earlier>>
        /\ p.pc = d /\ p.fetched # "none" /\ Took(q, d, p.fetched)
        /\ releaseSettings' = [releaseSettings EXCEPT ![p.at][d] = c]
    BY <1>10 DEF Keep
  <2>2. /\ PollFits(p) /\ p.fetched \in Values /\ p.arrived \in Nat
        /\ p.at \in Servers /\ p.arrived \leq moment
        /\ p.fetched = Current(d) \/ changed.at = moment
    BY <1>1, <1>2, <2>1 DEF PollFits, PollRecord, Documents
  <2>3. p.fetched = Current(d) \/ Early(p)
    BY <1>0, <1>1, <2>2 DEF Early
  <2>4. PICK r \in PollRecord : polls' = [polls EXCEPT ![q] = r] /\ PollFits(r)
    BY <2>1, <2>2, <2>3, TookFits
  <2>5. c \in SettingCopy /\ c.value = p.fetched /\ c.until = moment + SettingsTTL
    BY <1>0, <1>1, <2>2 DEF SettingCopy
  <2>6. CopyFits(c, d)
    BY <1>0, <1>1, <2>2, <2>5 DEF CopyFits
  <2> HIDE DEF c, p
  <2>7. DOMAIN releaseSettings' = Servers
    BY <1>1, <2>1
  <2>8. ASSUME NEW o \in Servers
        PROVE  /\ o # p.at => releaseSettings'[o] = releaseSettings[o]
               /\ o = p.at => releaseSettings'[o] = [releaseSettings[o] EXCEPT ![d] = c]
    BY <1>1, <2>1
  <2>9. ASSUME NEW o \in Servers PROVE releaseSettings'[o] \in [Documents -> SettingCopy]
    <3>1. releaseSettings[o] \in [Documents -> SettingCopy]
      BY <1>1
    <3>2. CASE o = p.at
      BY <2>5, <2>8, <3>1, <3>2
    <3>3. CASE o # p.at
      BY <2>8, <3>1, <3>3
    <3> QED
      BY <3>2, <3>3
  <2>10. ASSUME NEW o \in Servers, NEW e \in Documents PROVE CopyFits(releaseSettings'[o][e], e)
    <3>1. releaseSettings'[o][e] = releaseSettings[o][e] \/ (releaseSettings'[o][e] = c /\ e = d)
      BY <1>1, <2>8
    <3> QED
      BY <1>2, <2>6, <3>1
  <2>11. /\ DOMAIN results' = Servers /\ \A o \in Servers : results'[o] \in [PollKeys -> KeptResult]
         /\ \A o \in Servers, k \in PollKeys : ResultFits(results'[o][k], k)
    BY <1>1, <1>2, <2>1
  <2> QED
    BY <2>1, <2>4, <2>7, <2>9, <2>10, <2>11, PollMoves
<1>11. ASSUME NEW q \in Polls, CountFirst(q)
       PROVE  ReleaseInv'
  <2> DEFINE p == polls[q]
             n == [p.answer EXCEPT !.turnout = ballots]
             r == [p EXCEPT !.pc = "count", !.answer = n]
  <2>1. /\ UNCHANGED <<moment, status, mode, ballots, releaseSettings, results, changed, earlier>>
        /\ p.pc = "turnout" /\ polls' = [polls EXCEPT ![q] = r]
    BY <1>11 DEF CountFirst, Order
  <2>2. PollFits(p) /\ p \in PollRecord
    BY <1>1, <1>2
  <2>3. n \in Answer /\ n.turnout = ballots /\ n.tally = p.answer.tally
    BY <1>1, <2>2 DEF PollRecord, Answer
  <2> HIDE DEF n
  <2>4. /\ r \in PollRecord /\ r.pc = "count" /\ r.at = p.at /\ r.arrived = p.arrived /\ r.kind = p.kind
        /\ r.admin = p.admin /\ r.answer = n /\ r.fetched = p.fetched /\ r.released = p.released
    BY <2>2, <2>3 DEF PollRecord, Stages
  <2> HIDE DEF r
  <2>5. Early(r) <=> Early(p)
    BY <2>4 DEF Early
  <2>6. PollFits(r)
    BY <1>1, <2>1, <2>2, <2>3, <2>4, <2>5 DEF PollFits, Documents
  <2> QED
    BY <2>1, <2>4, <2>6, PollMovesAlone
<1>12. ASSUME NEW q \in Polls, CountSecond(q)
       PROVE  ReleaseInv'
  <2> DEFINE p == polls[q]
             n == IF p.released THEN [p.answer EXCEPT !.tally = TRUE, !.count = ballots] ELSE p.answer
             r == [p EXCEPT !.pc = IF p.kind = "exact" THEN "answered" ELSE "store", !.answer = n]
  <2>1. /\ UNCHANGED <<moment, status, mode, ballots, releaseSettings, results, changed, earlier>>
        /\ p.pc = "count" /\ polls' = [polls EXCEPT ![q] = r]
    BY <1>12 DEF CountSecond, Order
  <2>2. PollFits(p) /\ p \in PollRecord
    BY <1>1, <1>2
  <2>3. ~p.answer.tally /\ p.answer.turnout \leq ballots /\ p.fetched = "none"
    BY <2>1, <2>2 DEF PollFits, Documents
  <2>4. /\ n \in Answer /\ (n.tally <=> p.released) /\ (n.tally => n.count = ballots)
        /\ n.turnout = p.answer.turnout
    BY <1>1, <2>2, <2>3 DEF PollRecord, Answer
  <2> HIDE DEF n
  <2>5. /\ r \in PollRecord /\ r.pc = IF p.kind = "exact" THEN "answered" ELSE "store"
        /\ r.at = p.at /\ r.arrived = p.arrived /\ r.kind = p.kind
        /\ r.admin = p.admin /\ r.answer = n /\ r.fetched = "none" /\ r.released = p.released
    BY <2>2, <2>3, <2>4 DEF PollRecord, Stages
  <2> HIDE DEF r
  <2>6. Early(r) <=> Early(p)
    BY <2>5 DEF Early
  <2>7. n.tally => Recent(n.count, moment + ResultsTTL) /\ Recent(n.count, r.arrived)
    BY <1>2, <2>4 DEF EarlierKept, Recent
  <2>8. n.tally => n.turnout \leq n.count
    BY <2>3, <2>4
  <2>9. r.kind = "results" /\ ~r.admin => (r.released <=> Released(mode, status)) \/ Early(r)
    BY <2>1, <2>2, <2>5, <2>6 DEF PollFits
  <2>10. r.pc \in {"answered", "store"} /\ r.at \in Servers /\ r.arrived \leq moment
    BY <2>1, <2>2, <2>5 DEF PollFits
  <2>11. PollFits(r)
    BY <2>4, <2>5, <2>7, <2>8, <2>9, <2>10 DEF PollFits
  <2> QED
    BY <2>1, <2>5, <2>11, PollMovesAlone
<1>13. ASSUME NEW q \in Polls, StoreAnswer(q)
       PROVE  ReleaseInv'
  <2> DEFINE p == polls[q]
             key == KeyOf(p.kind, p.released)
             c == [answer |-> p.answer, until |-> KeptUntil]
             r == [p EXCEPT !.pc = "answered"]
  <2>1. /\ UNCHANGED <<moment, status, mode, ballots, releaseSettings, changed, earlier>>
        /\ p.pc = "store" /\ polls' = [polls EXCEPT ![q] = r]
        /\ results' = [results EXCEPT ![p.at][key] = c]
    BY <1>13 DEF StoreAnswer
  <2>2. PollFits(p) /\ p \in PollRecord
    BY <1>1, <1>2
  <2>3. /\ p.answer \in Answer /\ p.arrived \in Nat /\ p.at \in Servers /\ p.arrived \leq moment
        /\ p.answer.tally <=> p.released
        /\ p.answer.tally => p.answer.turnout \leq p.answer.count /\ Recent(p.answer.count, moment + ResultsTTL)
    BY <2>1, <2>2 DEF PollFits, PollRecord
  <2>4. c \in KeptResult /\ c.answer = p.answer /\ c.until = moment + ResultsTTL
    BY <1>0, <1>1, <2>3 DEF KeptResult, KeptUntil
  <2>5. /\ key \in PollKeys /\ (key = "released" => p.released) /\ (key = "withheld" => ~p.released)
    BY DEF KeyOf, PollKeys
  <2>6. /\ r \in PollRecord /\ r.pc = "answered" /\ r.at = p.at /\ r.arrived = p.arrived /\ r.kind = p.kind
        /\ r.admin = p.admin /\ r.answer = p.answer /\ r.fetched = p.fetched /\ r.released = p.released
    BY <2>2 DEF PollRecord, Stages
  <2> HIDE DEF c, r, key
  <2>7. Recent(p.answer.count, moment + ResultsTTL) => Recent(p.answer.count, p.arrived)
    BY <1>0, <1>1, <2>3 DEF Recent
  <2>8. Early(r) <=> Early(p)
    BY <2>6 DEF Early
  <2>9. PollFits(r)
    BY <2>1, <2>2, <2>3, <2>6, <2>7, <2>8 DEF PollFits, Documents
  <2>10. ResultFits(c, key)
    BY <1>0, <1>1, <2>3, <2>4, <2>5 DEF ResultFits
  <2> HIDE DEF p
  <2>11. DOMAIN results' = Servers
    BY <1>1, <2>1
  <2>12. ASSUME NEW o \in Servers
         PROVE  /\ o # p.at => results'[o] = results[o]
                /\ o = p.at => results'[o] = [results[o] EXCEPT ![key] = c]
    BY <1>1, <2>1
  <2>13. ASSUME NEW o \in Servers PROVE results'[o] \in [PollKeys -> KeptResult]
    <3>1. results[o] \in [PollKeys -> KeptResult]
      BY <1>1
    <3>2. CASE o = p.at
      BY <2>4, <2>12, <3>1, <3>2
    <3>3. CASE o # p.at
      BY <2>12, <3>1, <3>3
    <3> QED
      BY <3>2, <3>3
  <2>14. ASSUME NEW o \in Servers, NEW k \in PollKeys PROVE ResultFits(results'[o][k], k)
    <3>1. results'[o][k] = results[o][k] \/ (results'[o][k] = c /\ k = key)
      BY <1>1, <2>12
    <3> QED
      BY <1>2, <2>10, <3>1
  <2>15. /\ DOMAIN releaseSettings' = Servers /\ \A o \in Servers : releaseSettings'[o] \in [Documents -> SettingCopy]
         /\ \A o \in Servers, d \in Documents : CopyFits(releaseSettings'[o][d], d)
    BY <1>1, <1>2, <2>1
  <2> QED
    BY <2>1, <2>6, <2>9, <2>11, <2>13, <2>14, <2>15, PollMoves
<1> QED
  BY <1>3, <1>4, <1>5, <1>6, <1>7, <1>8, <1>9, <1>10, <1>11, <1>12, <1>13 DEF ReleaseNext

(* A visitor who comes when the copies have run out is shown the tally exactly   *)
(* when the rule in force says so, from no older count than the kept results     *)
(* allow, with no more voters than ballots; nobody is given the answer kept for  *)
(* somebody who may see more.                                                    *)
THEOREM ReleaseHolds == ReleaseSpec => []ReleaseSound
<1>1. ReleaseInv => ReleaseSound
  <2> SUFFICES ASSUME ReleaseInv PROVE ReleaseSound
    OBVIOUS
  <2>1. ASSUME NEW q \in Polls, Answered(q)
        PROVE  /\ polls[q].answer.tally => polls[q].released /\ polls[q].answer.turnout \leq polls[q].answer.count
               /\ polls[q].answer.tally => Recent(polls[q].answer.count, polls[q].arrived)
               /\ polls[q].kind = "results" => (polls[q].answer.tally <=> polls[q].released)
               /\ polls[q].kind = "results" /\ ~polls[q].admin =>
                     (polls[q].released <=> Released(mode, status)) \/ Early(polls[q])
               /\ polls[q].arrived \in Nat /\ polls[q].arrived \leq moment
    BY <2>1 DEF ReleaseInv, ReleaseTypes, PollRecord, PollFits, Answered
  <2>2. /\ moment \in Nat /\ (moment = 1 \/ moment \leq Seconds) /\ changed.at \in Nat
        /\ {SettingsTTL, ResultsTTL} \subseteq Nat \ {0} /\ Seconds \in Nat
    BY ReleaseAssumption DEF ReleaseInv, ReleaseTypes
  <2>3. RuleInForce
    BY <2>1, <2>2 DEF RuleInForce, Early
  <2>4. NoBorrowedTally /\ TurnoutNotAhead
    BY <2>1 DEF NoBorrowedTally, TurnoutNotAhead
  <2>5. TallyIsRecent
    BY <2>1, <2>2 DEF TallyIsRecent, Recent
  <2> QED
    BY <2>3, <2>4, <2>5 DEF ReleaseSound
<1> QED
  BY <1>1, ReleaseInvInit, ReleaseInvStep, PTL DEF ReleaseSpec

-----------------------------------------------------------------------------
(* The demo (DemoMode).                                                        *)

OperationStages ==
    {"idle", "delete", "count", "snapshot", "switch", "extend", "check", "voters", "posts", "roles", "panel",
     "credentials", "applications", "resolve", "schedule", "gate", "phases", "config", "last"}
Operation == [does : {"nothing", "enable", "extend", "seed", "phase", "voting", "reset", "disable"},
              pc : OperationStages, host : Hosts \cup {NoOperation.host}, days : Nat, doc : Doc,
              taken : Settings]
VisitRecord == [pc : {"idle", "asked", "told"}, host : Hosts \cup {NoVisit.host}, doc : Doc]
History == [changes : Nat, visits : Nat, restarts : Nat, fooled : BOOLEAN, late : BOOLEAN, lost : BOOLEAN]

DemoTypes ==
    /\ today \in Nat /\ demo \in Doc /\ settings \in Settings
    /\ cached \in [Hosts -> Doc]
    /\ operations \in [Superadmins -> Operation]
    /\ visits \in [Visitors -> VisitRecord]
    /\ history \in History

(* An extension counts from a document the demo has since been switched on     *)
(* after, if at all; a seed that met no reserved id is late when one is used.  *)
OperationFits(r) ==
    /\ r.pc = "extend" => r.doc.since \leq demo.since
    /\ r.does = "enable" => r.days \in DayChoices
    /\ r.pc \in {"count", "snapshot", "switch"} => r.does = "enable"
    /\ r.pc \in {"voters", "posts", "roles"} /\ reserved = "real" => history.late

DemoInv ==
    /\ DemoTypes
    /\ demo.since \leq today
    /\ DemoIsShort
    /\ reserved = "taken" => history.late
    /\ OwnVotersKept
    /\ \A a \in Superadmins : OperationFits(operations[a])

(* One superadmin, who was never taken in by a document left behind: the demo  *)
(* is on while he works in it and off while he switches it on, an expired one  *)
(* is known to every process as it stands, and what is to be restored is the   *)
(* organisation's own.                                                         *)
Unmarked(s) == s.phases # "demo" /\ s.config # "demo"

InDemo == {"extend", "check", "voters", "posts", "roles", "panel", "credentials", "applications",
           "resolve", "schedule", "gate"}

OperationClean(r) ==
    /\ r.pc \in {"count", "snapshot", "switch"} => ~demo.enabled
    /\ r.pc = "switch" => Unmarked(r.taken)
    /\ r.pc \in InDemo => demo.enabled
    /\ r.pc \in {"phases", "config", "last"} => demoRows \subseteq Activity
    /\ r.pc \in {"config", "last"} => settings.phases # "demo"
    /\ r.pc = "last" => settings.config # "demo"
    /\ Unmarked(r.doc.snapshot)

ExpiredKnown ==
    demo.enabled /\ ~Active(demo) =>
        /\ \A h \in Hosts : cached[h] \in {NotCached, demo}
        /\ \A v \in Visitors : visits[v].pc # "idle" => visits[v].doc = demo

DocsUnmarked ==
    /\ Unmarked(demo.snapshot)
    /\ \A h \in Hosts : Unmarked(cached[h].snapshot)
    /\ \A v \in Visitors : Unmarked(visits[v].doc.snapshot)

CleanInv ==
    history.fooled \/ (/\ DocsUnmarked
                       /\ ExpiredKnown
                       /\ OffIsClean
                       /\ \A a \in Superadmins : OperationClean(operations[a]))

LEMMA DemoRecords ==
    /\ OwnSettings \in Settings /\ Unmarked(OwnSettings)
    /\ NoDemo \in Doc /\ ~NoDemo.enabled /\ NoDemo.since = 0 /\ NoDemo.snapshot = OwnSettings
    /\ NotCached \in Doc /\ ~NotCached.enabled /\ NotCached.snapshot = OwnSettings
    /\ NoOperation \in Operation /\ NoOperation.pc = "idle" /\ NoOperation.does = "nothing"
    /\ NoOperation.doc = NoDemo
    /\ NoVisit \in VisitRecord /\ NoVisit.pc = "idle" /\ NoVisit.doc = NoDemo
<1>1. OwnSettings \in Settings /\ Unmarked(OwnSettings)
  BY DEF OwnSettings, Settings, Whose, Unmarked
<1>2. NoDemo \in Doc /\ ~NoDemo.enabled /\ NoDemo.since = 0 /\ NoDemo.snapshot = OwnSettings
  BY <1>1 DEF NoDemo, Doc
<1>3. NotCached \in Doc /\ ~NotCached.enabled /\ NotCached.snapshot = OwnSettings
  BY <1>2, DemoAssumption DEF NotCached, Doc
<1>4. /\ NoOperation.pc = "idle" /\ NoOperation.does = "nothing" /\ NoOperation.doc = NoDemo
      /\ NoVisit.pc = "idle" /\ NoVisit.doc = NoDemo
  BY DEF NoOperation, NoVisit
<1>5. NoOperation \in Operation
  BY <1>1, <1>2 DEF NoOperation, Operation, OperationStages
<1>6. NoVisit \in VisitRecord
  BY <1>2 DEF NoVisit, VisitRecord
<1> QED
  BY <1>1, <1>2, <1>3, <1>4, <1>5, <1>6

LEMMA GoesTo ==
    ASSUME operations \in [Superadmins -> Operation], NEW a \in Superadmins, NEW pc \in OperationStages, Goes(a, pc)
    PROVE  \E r \in Operation :
              /\ operations' = [operations EXCEPT ![a] = r]
              /\ r.pc = pc /\ r.does = operations[a].does /\ r.days = operations[a].days
              /\ r.doc = operations[a].doc /\ r.taken = operations[a].taken
<1> DEFINE o == operations[a]
           r == [o EXCEPT !.pc = pc]
<1>1. operations' = [operations EXCEPT ![a] = r]
  BY DEF Goes
<1>2. o \in Operation
  OBVIOUS
<1>3. r \in Operation /\ r.pc = pc /\ r.does = o.does /\ r.days = o.days /\ r.doc = o.doc /\ r.taken = o.taken
  BY <1>2 DEF Operation
<1> QED
  BY <1>1, <1>3

(* A step of a superadmin.                                                      *)
LEMMA OperationMoves ==
    ASSUME DemoInv, NEW a \in Superadmins, NEW r \in Operation, operations' = [operations EXCEPT ![a] = r],
           r.pc = "extend" => r.doc.since \leq demo'.since,
           r.does = "enable" => r.days \in DayChoices,
           r.pc \in {"count", "snapshot", "switch"} => r.does = "enable",
           r.pc \in {"voters", "posts", "roles"} /\ reserved' = "real" => history'.late,
           UNCHANGED <<today, visits>>,
           demo' \in Doc, demo.since \leq demo'.since, demo'.since \leq today, DemoIsShort',
           settings' \in Settings, cached' \in [Hosts -> Doc],
           history' \in History, history.late => history'.late,
           reserved' = "real" => reserved = "real", reserved' = "taken" => history'.late,
           OwnVotersKept'
    PROVE  DemoInv'
<1>1. DemoTypes'
  BY DEF DemoInv, DemoTypes
<1>2. ASSUME NEW b \in Superadmins PROVE OperationFits(operations[b])'
  <2>1. CASE b = a
    <3>1. operations'[b] = r
      BY <2>1 DEF DemoInv, DemoTypes
    <3> QED
      BY <3>1 DEF OperationFits
  <2>2. CASE b # a
    <3>1. operations'[b] = operations[b] /\ OperationFits(operations[b])
      BY <2>2 DEF DemoInv, DemoTypes
    <3>2. operations[b].doc.since \in Nat /\ demo.since \in Nat /\ demo'.since \in Nat
      BY DEF DemoInv, DemoTypes, Operation, Doc
    <3>3. operations[b].doc.since \leq demo.since => operations[b].doc.since \leq demo'.since
      BY <3>2
    <3> QED
      BY <3>1, <3>3 DEF OperationFits
  <2> QED
    BY <2>1, <2>2
<1> QED
  BY <1>1, <1>2 DEF DemoInv

(* A step of anybody else; a process that goes down forgets its operations.     *)
LEMMA WorldMoves ==
    ASSUME DemoInv, operations' \in [Superadmins -> Operation],
           \A a \in Superadmins : operations'[a] \in {operations[a], NoOperation},
           today' \in Nat, today \leq today', demo' = demo,
           settings' \in Settings, cached' \in [Hosts -> Doc], visits' \in [Visitors -> VisitRecord],
           history' \in History, history.late => history'.late, history'.lost = history.lost,
           reserved' = "taken" => reserved = "taken",
           \A a \in Superadmins : Seeding(a) /\ reserved' = "real" => reserved = "real" \/ history'.late
    PROVE  DemoInv'
<1>1. DemoTypes'
  BY DEF DemoInv, DemoTypes
<1>2. ASSUME NEW b \in Superadmins PROVE OperationFits(operations[b])'
  <2>1. CASE operations'[b] = NoOperation
    BY <2>1, DemoRecords DEF OperationFits
  <2>2. CASE operations'[b] = operations[b]
    BY <2>2 DEF DemoInv, OperationFits, Seeding
  <2> QED
    BY <2>1, <2>2
<1>3. demo'.since \leq today'
  BY DEF DemoInv, DemoTypes, Doc
<1> QED
  BY <1>1, <1>2, <1>3 DEF DemoInv, DemoIsShort, OwnVotersKept

(* What the caches become.                                                      *)
LEMMA CachesTyped ==
    ASSUME DemoInv, NEW h, cached' = cached \/ Forgetting(h) \/ Keeping(h)
    PROVE  cached' \in [Hosts -> Doc]
<1>1. cached \in [Hosts -> Doc] /\ demo \in Doc /\ NotCached \in Doc
  BY DemoRecords DEF DemoInv, DemoTypes
<1>2. CASE h \in Hosts
  <2>1. Believed(h) \in Doc
    BY <1>1, <1>2 DEF Believed
  <2> QED
    BY <1>1, <2>1 DEF Forgetting, Keeping
<1>3. CASE h \notin Hosts
  BY <1>1, <1>3 DEF Forgetting, Keeping
<1> QED
  BY <1>2, <1>3

(* The steps of work in a demo: seeding, preparing the vote, its schedule.      *)
InsideStep(a) ==
    \/ CheckReserved(a) \/ AddVoters(a) \/ AddPosts(a) \/ AssignRoles(a) \/ AddPanel(a)
    \/ SaveCredentials(a) \/ AddApplications(a) \/ Resolve(a) \/ WriteSchedule(a) \/ WriteGate(a)

LEMMA InsideSteps ==
    ASSUME DemoTypes, NEW a \in Superadmins, InsideStep(a)
    PROVE  /\ operations[a].pc \in InDemo
           /\ UNCHANGED <<today, demo, visits, history>>
           /\ settings' \in Settings
           /\ cached' = cached \/ Forgetting(operations[a].host)
           /\ reserved' = reserved \/ (reserved = "real" /\ reserved' = "taken" /\ operations[a].pc = "roles")
           /\ \E r \in Operation :
                 /\ operations' = [operations EXCEPT ![a] = r]
                 /\ r.pc \in (InDemo \ {"extend"}) \cup {"idle"}
                 /\ r.does = "enable" => operations[a].does = "enable" /\ r.days = operations[a].days
                 /\ r.doc \in {operations[a].doc, NoDemo}
                 /\ r.pc \in {"voters", "posts", "roles"} =>
                       reserved # "real" \/ operations[a].pc \in {"voters", "posts", "roles"}
<1>1. operations \in [Superadmins -> Operation] /\ settings \in Settings
  BY DEF DemoTypes
<1>2. /\ operations[a].pc \in InDemo
      /\ UNCHANGED <<today, demo, visits, history>>
      /\ cached' = cached \/ Forgetting(operations[a].host)
      /\ reserved' = reserved \/ (reserved = "real" /\ reserved' = "taken" /\ operations[a].pc = "roles")
  BY DEF InsideStep, CheckReserved, AddVoters, AddPosts, AssignRoles, AddPanel, SaveCredentials,
         AddApplications, Resolve, WriteSchedule, WriteGate, At, InDemo
<1>3. settings' \in Settings
  <2>1. \/ settings' = settings
        \/ settings' = [settings EXCEPT !.phases = "demo"]
        \/ settings' = [settings EXCEPT !.config = "demo"]
    BY DEF InsideStep, CheckReserved, AddVoters, AddPosts, AssignRoles, AddPanel, SaveCredentials,
           AddApplications, Resolve, WriteSchedule, WriteGate
  <2> QED
    BY <1>1, <2>1 DEF Settings, Whose
<1>4. \/ Done(a)
      \/ \E pc \in InDemo \ {"extend"} :
            Goes(a, pc) /\ (pc \in {"voters", "posts", "roles"} =>
                               reserved # "real" \/ operations[a].pc \in {"voters", "posts", "roles"})
  <2>1. CASE CheckReserved(a)
    BY <2>1 DEF CheckReserved, NoCollision, InDemo
  <2>2. CASE AddVoters(a)
    BY <2>2 DEF AddVoters, At, InDemo
  <2>3. CASE AddPosts(a)
    BY <2>3 DEF AddPosts, At, InDemo
  <2>4. CASE AssignRoles(a) \/ AddPanel(a)
    BY <2>4 DEF AssignRoles, AddPanel, InDemo
  <2>5. CASE SaveCredentials(a) \/ AddApplications(a)
    BY <2>5 DEF SaveCredentials, AddApplications, InDemo
  <2>6. CASE Resolve(a) \/ WriteSchedule(a) \/ WriteGate(a)
    BY <2>6 DEF Resolve, WriteSchedule, WriteGate, InDemo
  <2> QED
    BY <2>1, <2>2, <2>3, <2>4, <2>5, <2>6 DEF InsideStep
<1>5. CASE Done(a)
  <2>1. /\ NoOperation \in Operation /\ operations' = [operations EXCEPT ![a] = NoOperation]
        /\ NoOperation.pc = "idle" /\ NoOperation.does = "nothing" /\ NoOperation.doc = NoDemo
    BY <1>5, DemoRecords DEF Done
  <2> QED
    BY <1>2, <1>3, <2>1
<1>6. ASSUME NEW pc \in InDemo \ {"extend"}, Goes(a, pc),
             pc \in {"voters", "posts", "roles"} =>
                reserved # "real" \/ operations[a].pc \in {"voters", "posts", "roles"}
      PROVE  \E r \in Operation :
                 /\ operations' = [operations EXCEPT ![a] = r]
                 /\ r.pc \in (InDemo \ {"extend"}) \cup {"idle"}
                 /\ r.does = "enable" => operations[a].does = "enable" /\ r.days = operations[a].days
                 /\ r.doc \in {operations[a].doc, NoDemo}
                 /\ r.pc \in {"voters", "posts", "roles"} =>
                       reserved # "real" \/ operations[a].pc \in {"voters", "posts", "roles"}
  <2>1. pc \in OperationStages
    BY DEF InDemo, OperationStages
  <2>2. PICK r \in Operation :
              /\ operations' = [operations EXCEPT ![a] = r]
              /\ r.pc = pc /\ r.does = operations[a].does /\ r.days = operations[a].days
              /\ r.doc = operations[a].doc /\ r.taken = operations[a].taken
    BY <1>1, <1>6, <2>1, GoesTo
  <2> QED
    BY <1>6, <2>2
<1> QED
  BY <1>2, <1>3, <1>4, <1>5, <1>6

(* A superadmin asks for something of the demo.                                 *)
LEMMA Asked ==
    ASSUME DemoTypes, NEW a \in Superadmins, NEW h \in Hosts, Ask(a, h)
    PROVE  /\ UNCHANGED <<today, demo, settings, demoRows, ownRows, reserved, visits>>
           /\ Keeping(h)
           /\ history' \in History /\ history'.late = history.late /\ history'.lost = history.lost
           /\ history'.fooled <=> history.fooled \/ ~demo.enabled
           /\ \E r \in Operation :
                 /\ operations' = [operations EXCEPT ![a] = r]
                 /\ r.pc \in {"extend", "check", "schedule", "delete"} /\ r.does # "enable"
                 /\ r.doc \in {demo, NoDemo} /\ (r.pc = "extend" => r.doc = demo)
<1>1. PICK does \in {"extend", "seed", "phase", "voting", "reset", "disable"},
           pc \in {"extend", "check", "schedule", "delete"} :
         EnterDemo(a, h, does, pc) /\ (pc = "extend" => does = "extend")
  BY DEF Ask
<1> DEFINE doc == IF does \in {"seed", "phase"} THEN NoDemo ELSE demo
           r == [NoOperation EXCEPT !.does = does, !.host = h, !.pc = pc, !.doc = doc]
<1>2. /\ UNCHANGED <<today, demo, settings, demoRows, ownRows, reserved, visits>>
      /\ Keeping(h)
      /\ operations' = [operations EXCEPT ![a] = r]
      /\ history' = [history EXCEPT !.fooled = @ \/ ~demo.enabled]
  BY <1>1 DEF EnterDemo
<1>3. doc \in Doc
  BY DemoRecords DEF DemoTypes
<1>4. doc \in {demo, NoDemo} /\ (pc = "extend" => doc = demo)
  BY <1>1
<1> HIDE DEF doc
<1>5. r \in Operation /\ r.pc = pc /\ r.does = does /\ r.doc = doc
  BY <1>3, DemoRecords DEF Operation, OperationStages
<1>6. /\ history' \in History /\ history'.late = history.late /\ history'.lost = history.lost
      /\ history'.fooled <=> history.fooled \/ ~demo.enabled
  BY <1>2 DEF DemoTypes, History
<1> HIDE DEF r
<1> QED
  BY <1>1, <1>2, <1>4, <1>5, <1>6

LEMMA EnableAsked ==
    ASSUME DemoTypes, NEW a \in Superadmins, NEW h \in Hosts, NEW days \in DayChoices, AskEnable(a, h, days)
    PROVE  /\ UNCHANGED <<today, demo, settings, demoRows, ownRows, reserved, visits>>
           /\ Keeping(h) /\ ~Active(Believed(h))
           /\ history' \in History /\ history'.late = history.late /\ history'.lost = history.lost
           /\ history'.fooled <=> history.fooled \/ Active(demo)
           /\ \E r \in Operation :
                 /\ operations' = [operations EXCEPT ![a] = r]
                 /\ r.does = "enable" /\ r.days = days /\ r.doc = Believed(h)
                 /\ r.pc = IF r.doc.enabled THEN "delete" ELSE "count"
<1> DEFINE doc == Believed(h)
           pc == IF doc.enabled THEN "delete" ELSE "count"
           r == [NoOperation EXCEPT !.does = "enable", !.host = h, !.days = days, !.doc = doc, !.pc = pc]
<1>1. /\ UNCHANGED <<today, demo, settings, demoRows, ownRows, reserved, visits>>
      /\ Keeping(h) /\ ~Active(doc)
      /\ operations' = [operations EXCEPT ![a] = r]
      /\ history' = [history EXCEPT !.fooled = @ \/ Active(demo)]
  BY DEF AskEnable
<1>2. doc \in Doc /\ pc \in OperationStages /\ days \in Nat
  BY DemoAssumption DEF DemoTypes, Believed, OperationStages
<1>3. doc = Believed(h) /\ (pc = IF doc.enabled THEN "delete" ELSE "count")
  OBVIOUS
<1> HIDE DEF doc, pc
<1>4. r \in Operation /\ r.pc = pc /\ r.does = "enable" /\ r.days = days /\ r.doc = doc
  BY <1>2, DemoRecords DEF Operation
<1>5. /\ history' \in History /\ history'.late = history.late /\ history'.lost = history.lost
      /\ history'.fooled <=> history.fooled \/ Active(demo)
  BY <1>1 DEF DemoTypes, History, Active
<1> HIDE DEF r
<1> QED
  BY <1>1, <1>3, <1>4, <1>5

LEMMA DemoInvInit == DemoInit => DemoInv /\ CleanInv
<1> SUFFICES ASSUME DemoInit PROVE DemoInv /\ CleanInv
  OBVIOUS
<1>1. /\ today = 1 /\ demo = NoDemo /\ settings = OwnSettings /\ demoRows = {}
      /\ reserved \in {"free", "real"}
      /\ cached = [h \in Hosts |-> NotCached]
      /\ operations = [a \in Superadmins |-> NoOperation]
      /\ visits = [v \in Visitors |-> NoVisit]
      /\ history = [changes |-> 0, visits |-> 0, restarts |-> 0, fooled |-> FALSE, late |-> FALSE, lost |-> FALSE]
  BY DEF DemoInit
<1>2. history \in History /\ ~history.lost
  BY <1>1 DEF History
<1> HIDE DEF NoDemo, NotCached, NoOperation, NoVisit, OwnSettings
<1>3. DemoTypes
  BY <1>1, <1>2, DemoRecords DEF DemoTypes
<1>4. \A a \in Superadmins : OperationFits(operations[a]) /\ OperationClean(operations[a])
  BY <1>1, DemoRecords DEF OperationFits, OperationClean, InDemo
<1>5. DemoInv
  BY <1>1, <1>2, <1>3, <1>4, DemoRecords DEF DemoInv, DemoIsShort, OwnVotersKept
<1>6. DocsUnmarked /\ ExpiredKnown
  BY <1>1, DemoRecords DEF DocsUnmarked, ExpiredKnown
<1>7. OffIsClean
  BY <1>1, DemoRecords DEF OffIsClean, Unmarked
<1> QED
  BY <1>4, <1>5, <1>6, <1>7 DEF CleanInv

(* What the others do leaves the operations under way, or ends them.            *)
OthersStep ==
    \/ NextDay \/ OwnChange \/ OwnVoter
    \/ \E v \in Visitors : VisitTold(v) \/ VisitWrites(v) \/ VisitLeaves(v) \/ \E h \in Hosts : Visit(v, h)
    \/ \E h \in Hosts : Restart(h)

LEMMA OthersSteps ==
    ASSUME DemoTypes, OthersStep
    PROVE  /\ operations' \in [Superadmins -> Operation]
           /\ \A a \in Superadmins : operations'[a] \in {operations[a], NoOperation}
           /\ today' \in Nat /\ today \leq today' /\ demo' = demo
           /\ settings' \in Settings /\ cached' \in [Hosts -> Doc] /\ visits' \in [Visitors -> VisitRecord]
           /\ history' \in History /\ (history.late => history'.late) /\ history'.lost = history.lost
           /\ history'.fooled = history.fooled
           /\ reserved' = "taken" => reserved = "taken"
           /\ \A a \in Superadmins : Seeding(a) /\ reserved' = "real" => reserved = "real" \/ history'.late
           /\ settings'.phases = "demo" => settings.phases = "demo"
           /\ settings'.config = "demo" => settings.config = "demo"
           /\ demoRows' \subseteq demoRows \cup Activity
<1> DEFINE Result ==
           /\ operations' \in [Superadmins -> Operation]
           /\ \A a \in Superadmins : operations'[a] \in {operations[a], NoOperation}
           /\ today' \in Nat /\ today \leq today' /\ demo' = demo
           /\ settings' \in Settings /\ cached' \in [Hosts -> Doc] /\ visits' \in [Visitors -> VisitRecord]
           /\ history' \in History /\ (history.late => history'.late) /\ history'.lost = history.lost
           /\ history'.fooled = history.fooled
           /\ reserved' = "taken" => reserved = "taken"
           /\ \A a \in Superadmins : Seeding(a) /\ reserved' = "real" => reserved = "real" \/ history'.late
           /\ settings'.phases = "demo" => settings.phases = "demo"
           /\ settings'.config = "demo" => settings.config = "demo"
           /\ demoRows' \subseteq demoRows \cup Activity
<1>1. /\ today \in Nat /\ demo \in Doc /\ settings \in Settings
      /\ cached \in [Hosts -> Doc] /\ operations \in [Superadmins -> Operation]
      /\ visits \in [Visitors -> VisitRecord] /\ history \in History
  BY DEF DemoTypes
<1>2. NotCached \in Doc /\ NoOperation \in Operation /\ NoVisit \in VisitRecord
  BY DemoRecords
<1>3. CASE NextDay
  <2>1. cached' = [h \in Hosts |-> NotCached]
    BY <1>3 DEF NextDay
  <2>2. cached' \in [Hosts -> Doc]
    BY <1>2, <2>1
  <2>3. today' = today + 1 /\ UNCHANGED <<demo, settings, demoRows, reserved, operations, visits, history>>
    BY <1>3 DEF NextDay
  <2> QED
    BY <1>1, <2>2, <2>3
<1>4. CASE OwnChange
  <2>1. /\ UNCHANGED <<today, demo, demoRows, reserved, cached, operations, visits>>
        /\ settings' \in {[settings EXCEPT !.phases = "changed"], [settings EXCEPT !.config = "changed"],
                          [settings EXCEPT !.certified = TRUE]}
        /\ history' = [history EXCEPT !.changes = @ + 1]
    BY <1>4 DEF OwnChange
  <2>2. /\ settings' \in Settings /\ (settings'.phases = "demo" => settings.phases = "demo")
        /\ settings'.config = "demo" => settings.config = "demo"
    BY <1>1, <2>1 DEF Settings, Whose
  <2>3. /\ history' \in History /\ history'.late = history.late /\ history'.lost = history.lost
        /\ history'.fooled = history.fooled
    BY <1>1, <2>1 DEF History
  <2> QED
    BY <1>1, <2>1, <2>2, <2>3
<1>5. CASE OwnVoter
  <2>1. /\ UNCHANGED <<today, demo, settings, demoRows, cached, operations, visits>>
        /\ reserved' = "real"
        /\ history' = [history EXCEPT !.changes = @ + 1, !.late = @ \/ \E a \in Superadmins : Seeding(a)]
    BY <1>5 DEF OwnVoter
  <2>2. PICK late \in BOOLEAN : late = (history.late \/ \E a \in Superadmins : Seeding(a))
    OBVIOUS
  <2>3. history' = [history EXCEPT !.changes = @ + 1, !.late = late]
    BY <2>1, <2>2
  <2>4. (history.late => late) /\ \A a \in Superadmins : Seeding(a) => late
    BY <2>2
  <2>5. /\ history'.late = late /\ history'.lost = history.lost /\ history'.fooled = history.fooled
    BY <1>1, <2>3 DEF History
  <2>6. history' \in History
    <3>1. PICK n \in Nat : n = history.changes + 1
      BY <1>1 DEF History
    <3>2. history' = [history EXCEPT !.changes = n, !.late = late]
      BY <2>3, <3>1
    <3>3. [history EXCEPT !.changes = n] \in History
      BY <1>1 DEF History
    <3>4. \A e \in History : [e EXCEPT !.late = late] \in History
      BY DEF History
    <3>5. history' = [[history EXCEPT !.changes = n] EXCEPT !.late = late]
      BY <3>2
    <3> QED
      BY <3>3, <3>4, <3>5
  <2> QED
    BY <1>1, <2>1, <2>4, <2>5, <2>6
<1>6. ASSUME NEW v \in Visitors, NEW h \in Hosts, Visit(v, h)
      PROVE  Result
  <2> DEFINE r == [pc |-> IF cached[h] = NotCached THEN "asked" ELSE "told", host |-> h, doc |-> Believed(h)]
  <2>1. /\ UNCHANGED <<today, demo, settings, demoRows, reserved, cached, operations>>
        /\ history' = [history EXCEPT !.visits = @ + 1]
        /\ visits' = [visits EXCEPT ![v] = r]
    BY <1>6 DEF Visit
  <2>2. r \in VisitRecord
    BY <1>1 DEF VisitRecord, Believed
  <2> HIDE DEF r
  <2>3. visits' \in [Visitors -> VisitRecord]
    BY <1>1, <2>1, <2>2
  <2>4. /\ history' \in History /\ history'.late = history.late /\ history'.lost = history.lost
        /\ history'.fooled = history.fooled
    BY <1>1, <2>1 DEF History
  <2> QED
    BY <1>1, <2>1, <2>3, <2>4
<1>7. ASSUME NEW v \in Visitors, VisitTold(v) PROVE Result
  <2> DEFINE r == [visits[v] EXCEPT !.pc = "told"]
  <2>1. /\ UNCHANGED <<today, demo, settings, demoRows, reserved, operations, history>>
        /\ cached' = [cached EXCEPT ![visits[v].host] = visits[v].doc]
        /\ visits' = [visits EXCEPT ![v] = r]
    BY <1>7 DEF VisitTold
  <2>2. r \in VisitRecord /\ visits[v].doc \in Doc
    BY <1>1 DEF VisitRecord
  <2> HIDE DEF r
  <2>3. visits' \in [Visitors -> VisitRecord]
    BY <1>1, <2>1, <2>2
  <2>4. cached' \in [Hosts -> Doc]
    BY <1>1, <2>1, <2>2
  <2> QED
    BY <1>1, <2>1, <2>3, <2>4
<1>8. ASSUME NEW v \in Visitors, VisitWrites(v) \/ VisitLeaves(v) PROVE Result
  <2>1. /\ UNCHANGED <<today, demo, settings, reserved, cached, operations, history>>
        /\ visits' = [visits EXCEPT ![v] = NoVisit]
        /\ demoRows' \subseteq demoRows \cup Activity
    BY <1>8 DEF VisitWrites, VisitLeaves
  <2>2. visits' \in [Visitors -> VisitRecord]
    BY <1>1, <1>2, <2>1
  <2> QED
    BY <1>1, <2>1, <2>2
<1>9. ASSUME NEW h \in Hosts, Restart(h) PROVE Result
  <2>1. /\ UNCHANGED <<today, demo, settings, demoRows, reserved>>
        /\ history' = [history EXCEPT !.restarts = @ + 1]
        /\ cached' = [cached EXCEPT ![h] = NotCached]
        /\ operations' = [a \in Superadmins |-> IF operations[a].host = h THEN NoOperation ELSE operations[a]]
        /\ visits' = [v \in Visitors |-> IF visits[v].host = h THEN NoVisit ELSE visits[v]]
    BY <1>9 DEF Restart, Forgetting
  <2>2. operations' \in [Superadmins -> Operation] /\ \A a \in Superadmins : operations'[a] \in {operations[a], NoOperation}
    BY <1>1, <1>2, <2>1
  <2>3. visits' \in [Visitors -> VisitRecord]
    BY <1>1, <1>2, <2>1
  <2>4. cached' \in [Hosts -> Doc]
    BY <1>1, <1>2, <2>1
  <2>5. /\ history' \in History /\ history'.late = history.late /\ history'.lost = history.lost
        /\ history'.fooled = history.fooled
    BY <1>1, <2>1 DEF History
  <2> QED
    BY <1>1, <2>1, <2>2, <2>3, <2>4, <2>5
<1> QED
  BY <1>3, <1>4, <1>5, <1>6, <1>7, <1>8, <1>9 DEF OthersStep

LEMMA DemoInvStep == DemoInv /\ [DemoNext]_demoVars => DemoInv'
<1> SUFFICES ASSUME DemoInv, [DemoNext]_demoVars PROVE DemoInv'
  OBVIOUS
<1>1. /\ DemoTypes /\ today \in Nat /\ demo \in Doc /\ settings \in Settings
      /\ cached \in [Hosts -> Doc] /\ operations \in [Superadmins -> Operation]
      /\ visits \in [Visitors -> VisitRecord] /\ history \in History
  BY DEF DemoInv, DemoTypes
<1>2. /\ demo.since \in Nat /\ demo.until \in Nat /\ demo.enabled \in BOOLEAN /\ demo.since \leq today
      /\ demo.enabled => demo.until \leq demo.since + MaxDays
      /\ reserved = "taken" => history.late
      /\ history.lost => history.late
      /\ \A a \in Superadmins : OperationFits(operations[a])
  BY <1>1 DEF DemoInv, Doc, DemoIsShort, OwnVotersKept
<1>3. MaxDays \in Nat /\ DayChoices \subseteq 1 .. MaxDays
  BY DemoAssumption
<1>4. CASE UNCHANGED demoVars
  <2>1. DemoTypes' /\ OwnVotersKept' /\ DemoIsShort'
    BY <1>1, <1>2, <1>4 DEF demoVars, DemoTypes, OwnVotersKept, DemoIsShort
  <2> QED
    BY <1>2, <1>4, <2>1 DEF demoVars, DemoInv, OperationFits
<1>5. CASE OthersStep
  BY <1>1, <1>5, OthersSteps, WorldMoves
<1>6. ASSUME NEW a \in Superadmins, NEW r \in Operation, operations' = [operations EXCEPT ![a] = r],
             r.pc = "extend" => r.doc.since \leq demo.since,
             r.does = "enable" => r.days \in DayChoices,
             r.pc \in {"count", "snapshot", "switch"} => r.does = "enable",
             r.pc \in {"voters", "posts", "roles"} /\ reserved' = "real" => history.late,
             UNCHANGED <<today, visits>>, demo'.since = demo.since, demo' \in Doc,
             demo'.enabled => demo'.until \leq demo'.since + MaxDays,
             settings' \in Settings,
             cached' = cached \/ \E h \in Hosts \cup {NoOperation.host} : Forgetting(h) \/ Keeping(h),
             history' \in History, history'.late = history.late,
             reserved' = "real" => reserved = "real", reserved' = "taken" => history.late,
             history'.lost => history.late
      PROVE  DemoInv'
    <2>1. cached' \in [Hosts -> Doc]
      BY <1>6, CachesTyped
    <2>2. DemoIsShort' /\ OwnVotersKept'
      BY <1>6 DEF DemoIsShort, OwnVotersKept
    <2>3. demo.since \leq demo'.since /\ demo'.since \leq today
      BY <1>1, <1>2, <1>6
    <2>4. (history.late => history'.late) /\ (reserved' = "taken" => history'.late)
      BY <1>6
    <2>5. r.pc = "extend" => r.doc.since \leq demo'.since
      BY <1>6
    <2>6. r.pc \in {"voters", "posts", "roles"} /\ reserved' = "real" => history'.late
      BY <1>6
    <2> QED
      BY <1>6, <2>1, <2>2, <2>3, <2>4, <2>5, <2>6, OperationMoves
<1>7. ASSUME NEW a \in Superadmins
      PROVE  /\ operations[a] \in Operation /\ OperationFits(operations[a])
             /\ operations[a].host \in Hosts \cup {NoOperation.host}
             /\ operations[a].doc \in Doc /\ operations[a].taken \in Settings /\ operations[a].days \in Nat
  BY <1>1, <1>2 DEF Operation
<1>8. ASSUME NEW a \in Superadmins, NEW h \in Hosts, Ask(a, h) PROVE DemoInv'
  <2>1. /\ UNCHANGED <<today, demo, settings, demoRows, ownRows, reserved, visits>>
        /\ Keeping(h)
        /\ history' \in History /\ history'.late = history.late /\ history'.lost = history.lost
    BY <1>1, <1>8, Asked
  <2>2. PICK r \in Operation :
            /\ operations' = [operations EXCEPT ![a] = r]
            /\ r.pc \in {"extend", "check", "schedule", "delete"} /\ r.does # "enable"
            /\ r.doc \in {demo, NoDemo} /\ (r.pc = "extend" => r.doc = demo)
    BY <1>1, <1>8, Asked
  <2>3. r.pc = "extend" => r.doc.since \leq demo.since
    BY <1>2, <2>2
  <2>4. r.pc \notin {"count", "snapshot", "switch", "voters", "posts", "roles"}
    BY <2>2
  <2> QED
    BY <1>1, <1>2, <1>6, <2>1, <2>2, <2>3, <2>4
<1>9. ASSUME NEW a \in Superadmins, NEW h \in Hosts, NEW days \in DayChoices, AskEnable(a, h, days) PROVE DemoInv'
  <2>1. /\ UNCHANGED <<today, demo, settings, demoRows, ownRows, reserved, visits>>
        /\ Keeping(h)
        /\ history' \in History /\ history'.late = history.late /\ history'.lost = history.lost
    BY <1>1, <1>9, EnableAsked
  <2>2. PICK r \in Operation :
            /\ operations' = [operations EXCEPT ![a] = r]
            /\ r.does = "enable" /\ r.days = days /\ r.doc = Believed(h)
            /\ r.pc = IF r.doc.enabled THEN "delete" ELSE "count"
    BY <1>1, <1>9, EnableAsked
  <2> QED
    BY <1>1, <1>2, <1>6, <2>1, <2>2
<1>10. ASSUME NEW a \in Superadmins, CountActivity(a) PROVE DemoInv'
  <2>1. /\ UNCHANGED <<today, demo, settings, demoRows, ownRows, reserved, cached, visits, history>>
        /\ operations[a].pc = "count"
        /\ Done(a) \/ Goes(a, "snapshot")
    BY <1>10 DEF CountActivity, At
  <2>2. \E r \in Operation :
            /\ operations' = [operations EXCEPT ![a] = r]
            /\ r.pc \in {"idle", "snapshot"} /\ (r.pc # "idle" => r.does = operations[a].does)
            /\ r.does = "enable" => operations[a].does = "enable" /\ r.days = operations[a].days
    <3>1. CASE Done(a)
      BY <3>1, DemoRecords DEF Done
    <3>2. CASE Goes(a, "snapshot")
      BY <1>1, <3>2, GoesTo DEF OperationStages
    <3> QED
      BY <2>1, <3>1, <3>2
  <2>3. PICK r \in Operation :
            /\ operations' = [operations EXCEPT ![a] = r]
            /\ r.pc \in {"idle", "snapshot"} /\ (r.pc # "idle" => r.does = operations[a].does)
            /\ r.does = "enable" => operations[a].does = "enable" /\ r.days = operations[a].days
    BY <2>2
  <2>4. operations[a].does = "enable" /\ operations[a].days \in DayChoices
    BY <1>7, <2>1 DEF OperationFits
  <2> QED
    BY <1>1, <1>2, <1>6, <2>1, <2>3, <2>4
<1>11. ASSUME NEW a \in Superadmins, TakeSnapshot(a) PROVE DemoInv'
  <2> DEFINE o == operations[a]
             r == [o EXCEPT !.pc = "switch", !.taken = settings]
  <2>1. /\ UNCHANGED <<today, demo, settings, demoRows, ownRows, reserved, cached, visits, history>>
        /\ o.pc = "snapshot" /\ operations' = [operations EXCEPT ![a] = r]
    BY <1>11 DEF TakeSnapshot, At
  <2>2. r \in Operation /\ r.pc = "switch" /\ r.does = o.does /\ r.days = o.days
    BY <1>1, <1>7 DEF Operation, OperationStages
  <2>3. o.does = "enable" /\ o.days \in DayChoices
    BY <1>7, <2>1 DEF OperationFits
  <2> HIDE DEF r
  <2> QED
    BY <1>1, <1>2, <1>6, <2>1, <2>2, <2>3
<1>12. ASSUME NEW a \in Superadmins, SwitchOn(a) PROVE DemoInv'
  <2> DEFINE o == operations[a]
             d == [enabled |-> TRUE, since |-> today, until |-> today + o.days, snapshot |-> o.taken]
  <2>1. /\ UNCHANGED <<today, settings, demoRows, ownRows, reserved, visits, history>>
        /\ o.pc = "switch" /\ demo' = d
        /\ operations' = [operations EXCEPT ![a] = NoOperation] /\ Forgetting(o.host)
    BY <1>12 DEF SwitchOn, At, Ends, Done
  <2>2. o.days \in DayChoices
    BY <1>7, <2>1 DEF OperationFits
  <2>3. d \in Doc /\ d.since = today /\ d.until = today + o.days
    BY <1>1, <1>3, <1>7, <2>2 DEF Doc
  <2> HIDE DEF d
  <2>4. DemoIsShort'
    <3>0. o.days \in 1 .. MaxDays
      BY <1>3, <2>2
    <3>1. o.days \in Nat /\ o.days \leq MaxDays
      BY <1>3, <3>0
    <3>2. demo'.since = today /\ demo'.until = today + o.days
      BY <2>1, <2>3
    <3> HIDE DEF o
    <3> QED
      BY <1>1, <1>3, <3>1, <3>2 DEF DemoIsShort
  <2>5. cached' \in [Hosts -> Doc]
    BY <2>1, CachesTyped
  <2>6. OwnVotersKept'
    BY <1>2, <2>1 DEF OwnVotersKept
  <2>7. /\ demo' \in Doc /\ demo.since \leq demo'.since /\ demo'.since \leq today
    BY <1>1, <1>2, <2>1, <2>3
  <2>8. /\ NoOperation \in Operation /\ NoOperation.pc = "idle" /\ NoOperation.does = "nothing"
    BY DemoRecords
  <2>9. /\ UNCHANGED <<today, visits, history, reserved>> /\ settings' \in Settings /\ history' \in History
        /\ operations' = [operations EXCEPT ![a] = NoOperation]
    BY <1>1, <2>1
  <2> HIDE DEF o
  <2> QED
    BY <1>2, <2>4, <2>5, <2>6, <2>7, <2>8, <2>9, OperationMoves
<1>13. ASSUME NEW a \in Superadmins, NEW days \in DayChoices, ExtendDemo(a, days) PROVE DemoInv'
  <2> DEFINE o == operations[a]
             until == Later(o.doc.until, today) + days
             d == [demo EXCEPT !.until = until]
  <2>1. /\ UNCHANGED <<today, settings, demoRows, ownRows, reserved, visits, history>>
        /\ o.pc = "extend"
        /\ operations' = [operations EXCEPT ![a] = NoOperation]
        /\ \/ demo' = d /\ until \leq o.doc.since + MaxDays /\ Forgetting(o.host)
           \/ UNCHANGED <<demo, cached>>
    BY <1>13 DEF ExtendDemo, At, Ends, Done, WithinCap
  <2>2. o.doc.since \leq demo.since /\ o.doc.since \in Nat /\ until \in Nat
    BY <1>1, <1>3, <1>7, <2>1 DEF OperationFits, Doc, Later
  <2> HIDE DEF until
  <2>3. d \in Doc /\ d.since = demo.since /\ d.until = until
    BY <1>1, <2>2 DEF Doc
  <2> HIDE DEF d
  <2>4. demo' \in Doc /\ demo'.since = demo.since /\ (demo'.enabled => demo'.until \leq demo'.since + MaxDays)
    BY <1>1, <1>2, <1>3, <2>1, <2>2, <2>3
  <2> QED
    BY <1>1, <1>2, <1>6, <1>7, <2>1, <2>4, DemoRecords
<1>14. ASSUME NEW a \in Superadmins, InsideStep(a) PROVE DemoInv'
  <2>1. /\ UNCHANGED <<today, demo, visits, history>> /\ settings' \in Settings
        /\ cached' = cached \/ Forgetting(operations[a].host)
        /\ reserved' = reserved \/ (reserved = "real" /\ reserved' = "taken" /\ operations[a].pc = "roles")
    BY <1>1, <1>14, InsideSteps
  <2>2. PICK r \in Operation :
            /\ operations' = [operations EXCEPT ![a] = r]
            /\ r.pc \in (InDemo \ {"extend"}) \cup {"idle"}
            /\ r.does = "enable" => operations[a].does = "enable" /\ r.days = operations[a].days
            /\ r.doc \in {operations[a].doc, NoDemo}
            /\ r.pc \in {"voters", "posts", "roles"} =>
                  reserved # "real" \/ operations[a].pc \in {"voters", "posts", "roles"}
    BY <1>1, <1>14, InsideSteps
  <2>3. /\ operations[a].does = "enable" => operations[a].days \in DayChoices
        /\ operations[a].pc \in {"voters", "posts", "roles"} /\ reserved = "real" => history.late
    BY <1>7 DEF OperationFits
  <2>4. r.pc \notin {"extend", "count", "snapshot", "switch"}
    BY <2>2 DEF InDemo
  <2> QED
    BY <1>1, <1>2, <1>6, <1>7, <2>1, <2>2, <2>3, <2>4
<1>15. ASSUME NEW a \in Superadmins, DeleteTagged(a) PROVE DemoInv'
  <2>1. /\ UNCHANGED <<today, demo, settings, ownRows, cached, visits>>
        /\ reserved' = reserved \/ (reserved = "taken" /\ reserved' = "free")
        /\ history' = [history EXCEPT !.lost = @ \/ reserved # reserved']
        /\ UNCHANGED operations \/ Goes(a, "phases")
    BY <1>15 DEF DeleteTagged
  <2>2. history' \in History /\ history'.late = history.late
    BY <1>1, <2>1 DEF History
  <2>3. history'.lost => history.late
    BY <1>1, <1>2, <2>1 DEF History
  <2>4. \E r \in Operation :
            /\ operations' = [operations EXCEPT ![a] = r]
            /\ r = operations[a] \/ (r.pc = "phases" /\ r.does = operations[a].does /\ r.days = operations[a].days)
    <3>1. CASE UNCHANGED operations
      BY <1>1, <3>1
    <3>2. CASE Goes(a, "phases")
      BY <1>1, <3>2, GoesTo DEF OperationStages
    <3> QED
      BY <2>1, <3>1, <3>2
  <2>5. PICK r \in Operation :
            /\ operations' = [operations EXCEPT ![a] = r]
            /\ r = operations[a] \/ (r.pc = "phases" /\ r.does = operations[a].does /\ r.days = operations[a].days)
    BY <2>4
  <2> QED
    BY <1>1, <1>2, <1>6, <1>7, <2>1, <2>2, <2>3, <2>5 DEF OperationFits
<1>16. ASSUME NEW a \in Superadmins, RestorePhases(a) \/ RestoreConfig(a) PROVE DemoInv'
  <2>1. /\ UNCHANGED <<today, demo, demoRows, ownRows, reserved, visits, history>>
        /\ cached' = cached \/ Forgetting(operations[a].host)
        /\ Goes(a, "config") \/ Goes(a, "last")
        /\ \/ settings' = [settings EXCEPT !.phases = operations[a].doc.snapshot.phases]
           \/ settings' = [settings EXCEPT !.config = operations[a].doc.snapshot.config,
                                           !.certified = operations[a].doc.snapshot.certified]
    BY <1>16 DEF RestorePhases, RestoreConfig
  <2>2. operations[a].doc.snapshot \in Settings
    BY <1>7 DEF Doc
  <2>3. settings' \in Settings
    BY <1>1, <2>1, <2>2 DEF Settings
  <2>4. PICK r \in Operation :
            /\ operations' = [operations EXCEPT ![a] = r]
            /\ r.pc \in {"config", "last"} /\ r.does = operations[a].does /\ r.days = operations[a].days
    BY <1>1, <2>1, GoesTo DEF OperationStages
  <2> QED
    BY <1>1, <1>2, <1>6, <1>7, <2>1, <2>3, <2>4 DEF OperationFits
<1>17. ASSUME NEW a \in Superadmins, LastWrite(a) PROVE DemoInv'
  <2> DEFINE o == operations[a]
             d == [demo EXCEPT !.enabled = FALSE, !.until = today]
  <2>1. /\ UNCHANGED <<today, settings, demoRows, ownRows, reserved, visits, history>>
        /\ demo' = demo \/ demo' = d
        /\ Forgetting(o.host)
        /\ (o.does = "enable" /\ Goes(a, "count")) \/ Done(a)
    BY <1>17 DEF LastWrite
  <2>2. d \in Doc /\ d.since = demo.since /\ ~d.enabled
    BY <1>1 DEF Doc
  <2> HIDE DEF d
  <2>3. \E r \in Operation :
            /\ operations' = [operations EXCEPT ![a] = r]
            /\ \/ r.pc = "count" /\ r.does = "enable" /\ r.days = o.days /\ o.does = "enable"
               \/ r.pc = "idle" /\ r.does # "enable"
    <3>1. CASE Done(a)
      BY <3>1, DemoRecords DEF Done
    <3>2. CASE o.does = "enable" /\ Goes(a, "count")
      BY <1>1, <3>2, GoesTo DEF OperationStages
    <3> QED
      BY <2>1, <3>1, <3>2
  <2>4. PICK r \in Operation :
            /\ operations' = [operations EXCEPT ![a] = r]
            /\ \/ r.pc = "count" /\ r.does = "enable" /\ r.days = o.days /\ o.does = "enable"
               \/ r.pc = "idle" /\ r.does # "enable"
    BY <2>3
  <2> QED
    BY <1>1, <1>2, <1>6, <1>7, <2>1, <2>2, <2>4 DEF OperationFits
<1> QED
  BY <1>4, <1>5, <1>8, <1>9, <1>10, <1>11, <1>12, <1>13, <1>14, <1>15, <1>16, <1>17
     DEF DemoNext, OthersStep, InsideStep

(* The caches follow the document, or are forgotten.                            *)
LEMMA DocsStay ==
    ASSUME DemoTypes, DocsUnmarked, ExpiredKnown, UNCHANGED <<today, demo, visits>>, NEW h,
           cached' = cached \/ Forgetting(h) \/ Keeping(h)
    PROVE  DocsUnmarked' /\ ExpiredKnown'
<1>1. DOMAIN cached = Hosts /\ Unmarked(NotCached.snapshot)
  BY DemoRecords DEF DemoTypes
<1>2. ASSUME NEW g \in Hosts PROVE cached'[g] = cached[g] \/ cached'[g] = NotCached \/ cached'[g] = demo
  BY <1>1 DEF Forgetting, Keeping, Believed
<1>3. DocsUnmarked'
  BY <1>1, <1>2 DEF DocsUnmarked
<1>4. ExpiredKnown'
  BY <1>2 DEF ExpiredKnown, Active
<1> QED
  BY <1>3, <1>4

(* A step of the only superadmin.                                               *)
LEMMA CleanMoves ==
    ASSUME DemoTypes, \A a, b \in Superadmins : a = b, NEW a \in Superadmins, NEW r \in Operation,
           operations' = [operations EXCEPT ![a] = r], OperationClean(r)',
           DocsUnmarked', ExpiredKnown', OffIsClean'
    PROVE  CleanInv'
<1>1. ASSUME NEW b \in Superadmins PROVE operations'[b] = r
  BY DEF DemoTypes
<1> QED
  BY <1>1 DEF CleanInv, OperationClean

LEMMA CleanInvStep ==
    ASSUME \A a, b \in Superadmins : a = b
    PROVE  DemoInv /\ CleanInv /\ [DemoNext]_demoVars => CleanInv'
<1> SUFFICES ASSUME DemoInv, CleanInv, [DemoNext]_demoVars, ~history'.fooled PROVE CleanInv'
  BY DEF CleanInv
<1>1. /\ DemoTypes /\ today \in Nat /\ demo \in Doc /\ settings \in Settings
      /\ cached \in [Hosts -> Doc] /\ operations \in [Superadmins -> Operation]
      /\ visits \in [Visitors -> VisitRecord] /\ history \in History
  BY DEF DemoInv, DemoTypes
<1>2. ASSUME ~history.fooled
      PROVE  /\ DocsUnmarked /\ ExpiredKnown /\ OffIsClean
             /\ \A a \in Superadmins : OperationClean(operations[a])
  BY <1>2 DEF CleanInv
<1>3. MaxDays \in Nat /\ DayChoices \subseteq 1 .. MaxDays
  BY DemoAssumption
<1>4. OperationClean(NoOperation)'
  BY DemoRecords DEF OperationClean, InDemo
<1>5. CASE UNCHANGED demoVars
  BY <1>5 DEF demoVars, CleanInv, DocsUnmarked, ExpiredKnown, OffIsClean, OperationClean, Active
<1>6. CASE OthersStep
  <2>1. /\ \A a \in Superadmins : operations'[a] \in {operations[a], NoOperation}
        /\ demo' = demo /\ history'.fooled = history.fooled
        /\ settings'.phases = "demo" => settings.phases = "demo"
        /\ settings'.config = "demo" => settings.config = "demo"
        /\ demoRows' \subseteq demoRows \cup Activity
    BY <1>1, <1>6, OthersSteps
  <2>2. /\ DocsUnmarked /\ ExpiredKnown /\ OffIsClean
        /\ \A a \in Superadmins : OperationClean(operations[a])
    BY <1>2, <2>1
  <2>3. OffIsClean'
    BY <2>1, <2>2 DEF OffIsClean
  <2>4. ASSUME NEW a \in Superadmins PROVE OperationClean(operations[a])'
    <3>1. CASE operations'[a] = NoOperation
      BY <3>1, DemoRecords DEF OperationClean, InDemo
    <3>2. CASE operations'[a] = operations[a]
      BY <2>1, <2>2, <3>2 DEF OperationClean
    <3> QED
      BY <2>1, <3>1, <3>2
  <2>5. Unmarked(NotCached.snapshot) /\ Unmarked(NoVisit.doc.snapshot) /\ NoVisit.pc = "idle"
    BY DemoRecords
  <2>6. CASE NextDay
    <3>1. cached' = [h \in Hosts |-> NotCached] /\ UNCHANGED visits /\ \A v \in Visitors : visits[v].pc = "idle"
      BY <2>6 DEF NextDay
    <3> QED
      BY <2>1, <2>2, <2>3, <2>4, <2>5, <3>1 DEF CleanInv, DocsUnmarked, ExpiredKnown
  <2>7. CASE OwnChange \/ OwnVoter
    <3>1. UNCHANGED <<today, cached, visits>>
      BY <2>7 DEF OwnChange, OwnVoter
    <3> QED
      BY <2>1, <2>2, <2>3, <2>4, <3>1 DEF CleanInv, DocsUnmarked, ExpiredKnown, Active
  <2>8. ASSUME NEW v \in Visitors, NEW h \in Hosts, Visit(v, h) PROVE CleanInv'
    <3> DEFINE r == [pc |-> IF cached[h] = NotCached THEN "asked" ELSE "told", host |-> h, doc |-> Believed(h)]
    <3>1. UNCHANGED <<today, cached>> /\ visits' = [visits EXCEPT ![v] = r]
      BY <2>8 DEF Visit
    <3>2. Unmarked(r.doc.snapshot)
      BY <2>2 DEF DocsUnmarked, Believed
    <3>3. demo.enabled /\ ~Active(demo) => r.doc = demo
      BY <2>2 DEF ExpiredKnown, Believed
    <3> HIDE DEF r
    <3>4. \A w \in Visitors : visits'[w] = visits[w] \/ visits'[w] = r
      BY <1>1, <3>1
    <3>5. DocsUnmarked'
      BY <2>1, <2>2, <3>1, <3>2, <3>4 DEF DocsUnmarked
    <3>6. ExpiredKnown'
      BY <2>1, <2>2, <3>1, <3>3, <3>4 DEF ExpiredKnown, Active
    <3> QED
      BY <2>3, <2>4, <3>5, <3>6 DEF CleanInv
  <2>9. ASSUME NEW v \in Visitors, VisitTold(v) PROVE CleanInv'
    <3> DEFINE r == [visits[v] EXCEPT !.pc = "told"]
    <3>1. /\ UNCHANGED today /\ visits' = [visits EXCEPT ![v] = r] /\ visits[v].pc # "idle"
          /\ cached' = [cached EXCEPT ![visits[v].host] = visits[v].doc]
      BY <2>9 DEF VisitTold
    <3>2. r.doc = visits[v].doc
      BY <1>1 DEF VisitRecord
    <3> HIDE DEF r
    <3>3. \A w \in Visitors : visits'[w] = visits[w] \/ visits'[w] = r
      BY <1>1, <3>1
    <3>4. \A h \in Hosts : cached'[h] = cached[h] \/ cached'[h] = visits[v].doc
      BY <1>1, <3>1
    <3>5. DocsUnmarked'
      BY <2>1, <2>2, <3>2, <3>3, <3>4 DEF DocsUnmarked
    <3>6. ExpiredKnown'
      BY <2>1, <2>2, <3>1, <3>2, <3>3, <3>4 DEF ExpiredKnown, Active
    <3> QED
      BY <2>3, <2>4, <3>5, <3>6 DEF CleanInv
  <2>10. ASSUME NEW v \in Visitors, VisitWrites(v) \/ VisitLeaves(v) PROVE CleanInv'
    <3>1. UNCHANGED <<today, cached>> /\ visits' = [visits EXCEPT ![v] = NoVisit]
      BY <2>10 DEF VisitWrites, VisitLeaves
    <3>2. \A w \in Visitors : visits'[w] = visits[w] \/ visits'[w] = NoVisit
      BY <1>1, <3>1
    <3> QED
      BY <2>1, <2>2, <2>3, <2>4, <2>5, <3>1, <3>2 DEF CleanInv, DocsUnmarked, ExpiredKnown, Active
  <2>11. ASSUME NEW h \in Hosts, Restart(h) PROVE CleanInv'
    <3>1. /\ UNCHANGED today /\ cached' = [cached EXCEPT ![h] = NotCached]
          /\ visits' = [v \in Visitors |-> IF visits[v].host = h THEN NoVisit ELSE visits[v]]
      BY <2>11 DEF Restart, Forgetting
    <3>2. \A w \in Visitors : visits'[w] = visits[w] \/ visits'[w] = NoVisit
      BY <3>1
    <3>3. \A g \in Hosts : cached'[g] = cached[g] \/ cached'[g] = NotCached
      BY <1>1, <3>1
    <3> QED
      BY <2>1, <2>2, <2>3, <2>4, <2>5, <3>1, <3>2, <3>3 DEF CleanInv, DocsUnmarked, ExpiredKnown, Active
  <2> QED
    BY <1>6, <2>6, <2>7, <2>8, <2>9, <2>10, <2>11 DEF OthersStep
<1>7. ASSUME NEW a \in Superadmins, NEW h \in Hosts, Ask(a, h) PROVE CleanInv'
  <2>1. /\ UNCHANGED <<today, demo, settings, demoRows, ownRows, reserved, visits>>
        /\ Keeping(h) /\ (history'.fooled <=> history.fooled \/ ~demo.enabled)
    BY <1>1, <1>7, Asked
  <2>2. PICK r \in Operation :
            /\ operations' = [operations EXCEPT ![a] = r]
            /\ r.pc \in {"extend", "check", "schedule", "delete"} /\ r.does # "enable"
            /\ r.doc \in {demo, NoDemo} /\ (r.pc = "extend" => r.doc = demo)
    BY <1>1, <1>7, Asked
  <2>3. demo.enabled /\ DocsUnmarked /\ ExpiredKnown /\ OffIsClean
    BY <1>2, <2>1
  <2>4. Unmarked(r.doc.snapshot)
    BY <2>2, <2>3, DemoRecords DEF DocsUnmarked
  <2>5. OperationClean(r)'
    BY <2>1, <2>2, <2>3, <2>4 DEF OperationClean
  <2>6. DocsUnmarked' /\ ExpiredKnown'
    BY <1>1, <2>1, <2>3, DocsStay
  <2>7. OffIsClean'
    BY <2>1, <2>3 DEF OffIsClean
  <2> QED
    BY <1>1, <2>2, <2>5, <2>6, <2>7, CleanMoves
<1>8. ASSUME NEW a \in Superadmins, NEW h \in Hosts, NEW days \in DayChoices, AskEnable(a, h, days) PROVE CleanInv'
  <2>1. /\ UNCHANGED <<today, demo, settings, demoRows, ownRows, reserved, visits>>
        /\ Keeping(h) /\ ~Active(Believed(h)) /\ (history'.fooled <=> history.fooled \/ Active(demo))
    BY <1>1, <1>8, EnableAsked
  <2>2. PICK r \in Operation :
            /\ operations' = [operations EXCEPT ![a] = r]
            /\ r.does = "enable" /\ r.days = days /\ r.doc = Believed(h)
            /\ r.pc = IF r.doc.enabled THEN "delete" ELSE "count"
    BY <1>1, <1>8, EnableAsked
  <2>3. ~Active(demo) /\ DocsUnmarked /\ ExpiredKnown /\ OffIsClean
    BY <1>2, <2>1
  <2>4. Unmarked(r.doc.snapshot)
    BY <2>2, <2>3 DEF DocsUnmarked, Believed
  <2>5. r.pc = "count" => ~demo.enabled
    BY <2>2, <2>3 DEF ExpiredKnown, Believed
  <2>6. OperationClean(r)'
    BY <2>1, <2>2, <2>4, <2>5 DEF OperationClean, InDemo
  <2>7. DocsUnmarked' /\ ExpiredKnown'
    BY <1>1, <2>1, <2>3, DocsStay
  <2>8. OffIsClean'
    BY <2>1, <2>3 DEF OffIsClean
  <2> QED
    BY <1>1, <2>2, <2>6, <2>7, <2>8, CleanMoves
<1>9. ASSUME NEW a \in Superadmins, CountActivity(a) \/ TakeSnapshot(a) PROVE CleanInv'
  <2>1. /\ UNCHANGED <<today, demo, settings, demoRows, ownRows, reserved, cached, visits, history>>
        /\ operations[a].pc \in {"count", "snapshot"}
    BY <1>9 DEF CountActivity, TakeSnapshot, At
  <2>2. DocsUnmarked /\ ExpiredKnown /\ OffIsClean /\ OperationClean(operations[a]) /\ ~demo.enabled
    BY <1>2, <2>1 DEF OperationClean
  <2>3. Unmarked(settings) /\ Unmarked(operations[a].doc.snapshot)
    BY <2>2 DEF OffIsClean, OperationClean, Unmarked
  <2>4. DocsUnmarked' /\ ExpiredKnown' /\ OffIsClean'
    BY <2>1, <2>2 DEF DocsUnmarked, ExpiredKnown, OffIsClean, Active
  <2>5. CASE Done(a)
    <3>1. NoOperation \in Operation /\ operations' = [operations EXCEPT ![a] = NoOperation]
      BY <2>5, DemoRecords DEF Done
    <3> QED
      BY <1>1, <1>4, <2>4, <3>1, CleanMoves
  <2>6. CASE Goes(a, "snapshot")
    <3>1. PICK r \in Operation :
              /\ operations' = [operations EXCEPT ![a] = r]
              /\ r.pc = "snapshot" /\ r.doc = operations[a].doc
      BY <1>1, <2>6, GoesTo DEF OperationStages
    <3>2. OperationClean(r)'
      BY <2>1, <2>2, <2>3, <3>1 DEF OperationClean, InDemo
    <3> QED
      BY <1>1, <2>4, <3>1, <3>2, CleanMoves
  <2>7. CASE TakeSnapshot(a)
    <3> DEFINE o == operations[a]
    <3>1. operations' = [operations EXCEPT ![a] = [o EXCEPT !.pc = "switch", !.taken = settings]]
      BY <2>7 DEF TakeSnapshot
    <3>2. o \in Operation
      BY <1>1
    <3>3. PICK r \in Operation : r = [o EXCEPT !.pc = "switch", !.taken = settings]
      BY <1>1, <3>2 DEF Operation, OperationStages
    <3>4. r.pc = "switch" /\ r.taken = settings /\ r.doc = o.doc
      BY <3>2, <3>3 DEF Operation
    <3>5. OperationClean(r)'
      BY <2>1, <2>2, <2>3, <3>4 DEF OperationClean, InDemo
    <3> QED
      BY <1>1, <2>4, <3>1, <3>3, <3>5, CleanMoves
  <2> QED
    BY <1>9, <2>5, <2>6, <2>7 DEF CountActivity
<1>10. ASSUME NEW a \in Superadmins, SwitchOn(a) PROVE CleanInv'
  <2> DEFINE o == operations[a]
             d == [enabled |-> TRUE, since |-> today, until |-> today + o.days, snapshot |-> o.taken]
  <2>1. /\ UNCHANGED <<today, settings, demoRows, ownRows, reserved, visits, history>>
        /\ o.pc = "switch" /\ demo' = d
        /\ operations' = [operations EXCEPT ![a] = NoOperation] /\ Forgetting(o.host)
    BY <1>10 DEF SwitchOn, At, Ends, Done
  <2>2. DocsUnmarked /\ OperationClean(o) /\ o.days \in 1 .. MaxDays
    BY <1>2, <1>3, <2>1 DEF DemoInv, OperationFits
  <2>3. d.enabled /\ d.until > today /\ Unmarked(d.snapshot)
    BY <1>1, <1>3, <2>1, <2>2 DEF OperationClean
  <2> HIDE DEF d
  <2>4. ExpiredKnown' /\ OffIsClean'
    BY <2>1, <2>3 DEF ExpiredKnown, OffIsClean, Active
  <2>5. \A h \in Hosts : cached'[h] = cached[h] \/ cached'[h] = NotCached
    BY <1>1, <2>1 DEF Forgetting
  <2>6. DocsUnmarked'
    BY <2>1, <2>2, <2>3, <2>5, DemoRecords DEF DocsUnmarked
  <2>7. NoOperation \in Operation
    BY DemoRecords
  <2> QED
    BY <1>1, <1>4, <2>1, <2>4, <2>6, <2>7, CleanMoves
<1>11. ASSUME NEW a \in Superadmins, NEW days \in DayChoices, ExtendDemo(a, days) PROVE CleanInv'
  <2> DEFINE o == operations[a]
             until == Later(o.doc.until, today) + days
             d == [demo EXCEPT !.until = until]
  <2>1. /\ UNCHANGED <<today, settings, demoRows, ownRows, reserved, visits, history>>
        /\ o.pc = "extend"
        /\ operations' = [operations EXCEPT ![a] = NoOperation]
        /\ \/ demo' = d /\ Forgetting(o.host)
           \/ UNCHANGED <<demo, cached>>
    BY <1>11 DEF ExtendDemo, At, Ends, Done, WithinCap
  <2>2. DocsUnmarked /\ ExpiredKnown /\ OffIsClean /\ demo.enabled
    BY <1>2, <2>1 DEF OperationClean, InDemo
  <2>3. days \in 1 .. MaxDays /\ o.doc.until \in Nat
    BY <1>1, <1>3 DEF Operation, Doc
  <2>4. until \in Nat /\ until > today
    BY <1>1, <1>3, <2>3 DEF Later
  <2> HIDE DEF until
  <2>5. d.enabled = demo.enabled /\ d.until = until /\ d.snapshot = demo.snapshot
    BY <1>1 DEF Doc
  <2> HIDE DEF d
  <2>6. NoOperation \in Operation
    BY DemoRecords
  <2>7. CASE demo' = d /\ Forgetting(o.host)
    <3>1. ExpiredKnown' /\ OffIsClean'
      BY <2>1, <2>2, <2>4, <2>5, <2>7 DEF ExpiredKnown, OffIsClean, Active
    <3>2. \A h \in Hosts : cached'[h] = cached[h] \/ cached'[h] = NotCached
      BY <1>1, <2>7 DEF Forgetting
    <3>3. DocsUnmarked'
      BY <2>1, <2>2, <2>5, <2>7, <3>2, DemoRecords DEF DocsUnmarked
    <3> QED
      BY <1>1, <1>4, <2>1, <2>6, <3>1, <3>3, CleanMoves
  <2>8. CASE UNCHANGED <<demo, cached>>
    <3>1. DocsUnmarked' /\ ExpiredKnown' /\ OffIsClean'
      BY <2>1, <2>2, <2>8 DEF DocsUnmarked, ExpiredKnown, OffIsClean, Active
    <3> QED
      BY <1>1, <1>4, <2>1, <2>6, <3>1, CleanMoves
  <2> QED
    BY <2>1, <2>7, <2>8
<1>12. ASSUME NEW a \in Superadmins, InsideStep(a) PROVE CleanInv'
  <2>1. /\ UNCHANGED <<today, demo, visits, history>> /\ operations[a].pc \in InDemo
        /\ cached' = cached \/ Forgetting(operations[a].host)
    BY <1>1, <1>12, InsideSteps
  <2>2. PICK r \in Operation :
            /\ operations' = [operations EXCEPT ![a] = r]
            /\ r.pc \in (InDemo \ {"extend"}) \cup {"idle"}
            /\ r.doc \in {operations[a].doc, NoDemo}
    BY <1>1, <1>12, InsideSteps
  <2>3. DocsUnmarked /\ ExpiredKnown /\ OperationClean(operations[a]) /\ demo.enabled
    BY <1>2, <2>1 DEF OperationClean
  <2>4. Unmarked(r.doc.snapshot)
    BY <2>2, <2>3, DemoRecords DEF OperationClean
  <2>5. OperationClean(r)'
    BY <2>1, <2>2, <2>3, <2>4 DEF OperationClean, InDemo
  <2>6. DocsUnmarked' /\ ExpiredKnown'
    BY <1>1, <2>1, <2>3, DocsStay
  <2>7. OffIsClean'
    BY <2>1, <2>3 DEF OffIsClean
  <2> QED
    BY <1>1, <2>2, <2>5, <2>6, <2>7, CleanMoves
<1>13. ASSUME NEW a \in Superadmins, DeleteTagged(a) PROVE CleanInv'
  <2>1. /\ UNCHANGED <<today, demo, settings, ownRows, cached, visits>> /\ operations[a].pc = "delete"
        /\ demoRows' \subseteq demoRows
        /\ history' = [history EXCEPT !.lost = @ \/ reserved # reserved']
        /\ UNCHANGED operations \/ (Goes(a, "phases") /\ demoRows' = {})
    BY <1>13 DEF DeleteTagged, At
  <2>2. history'.fooled = history.fooled
    BY <1>1, <2>1 DEF History
  <2>3. DocsUnmarked /\ ExpiredKnown /\ OffIsClean /\ OperationClean(operations[a])
    BY <1>2, <2>2
  <2>4. DocsUnmarked' /\ ExpiredKnown' /\ OffIsClean'
    BY <2>1, <2>3 DEF DocsUnmarked, ExpiredKnown, OffIsClean, Active
  <2>5. CASE UNCHANGED operations
    <3>1. PICK r \in Operation : r = operations[a]
      BY <1>1
    <3>2. operations' = [operations EXCEPT ![a] = r]
      BY <1>1, <2>5, <3>1
    <3>3. OperationClean(r)'
      BY <2>1, <2>3, <3>1 DEF OperationClean, InDemo
    <3> QED
      BY <1>1, <2>4, <3>2, <3>3, CleanMoves
  <2>6. CASE Goes(a, "phases") /\ demoRows' = {}
    <3>1. PICK r \in Operation :
              /\ operations' = [operations EXCEPT ![a] = r]
              /\ r.pc = "phases" /\ r.doc = operations[a].doc
      BY <1>1, <2>6, GoesTo DEF OperationStages
    <3>2. OperationClean(r)'
      BY <2>3, <2>6, <3>1 DEF OperationClean, InDemo
    <3> QED
      BY <1>1, <2>4, <3>1, <3>2, CleanMoves
  <2> QED
    BY <2>1, <2>5, <2>6
<1>14. ASSUME NEW a \in Superadmins, RestorePhases(a) PROVE CleanInv'
  <2>1. /\ UNCHANGED <<today, demo, demoRows, ownRows, reserved, cached, visits, history>>
        /\ operations[a].pc = "phases" /\ Goes(a, "config")
        /\ settings' = [settings EXCEPT !.phases = operations[a].doc.snapshot.phases]
    BY <1>14 DEF RestorePhases, At
  <2>2. DocsUnmarked /\ ExpiredKnown /\ OffIsClean /\ OperationClean(operations[a])
    BY <1>2, <2>1
  <2>3. settings'.phases # "demo" /\ settings'.config = settings.config
    BY <1>1, <2>1, <2>2 DEF OperationClean, Unmarked, Settings
  <2>4. DocsUnmarked' /\ ExpiredKnown' /\ OffIsClean'
    BY <2>1, <2>2, <2>3 DEF DocsUnmarked, ExpiredKnown, OffIsClean, Active
  <2>5. PICK r \in Operation :
            /\ operations' = [operations EXCEPT ![a] = r]
            /\ r.pc = "config" /\ r.doc = operations[a].doc
    BY <1>1, <2>1, GoesTo DEF OperationStages
  <2>6. OperationClean(r)'
    BY <2>1, <2>2, <2>3, <2>5 DEF OperationClean, InDemo
  <2> QED
    BY <1>1, <2>4, <2>5, <2>6, CleanMoves
<1>15. ASSUME NEW a \in Superadmins, RestoreConfig(a) PROVE CleanInv'
  <2>1. /\ UNCHANGED <<today, demo, demoRows, ownRows, reserved, visits, history>>
        /\ operations[a].pc = "config" /\ Goes(a, "last") /\ Forgetting(operations[a].host)
        /\ settings' = [settings EXCEPT !.config = operations[a].doc.snapshot.config,
                                        !.certified = operations[a].doc.snapshot.certified]
    BY <1>15 DEF RestoreConfig, At
  <2>2. DocsUnmarked /\ ExpiredKnown /\ OffIsClean /\ OperationClean(operations[a])
    BY <1>2, <2>1
  <2>3. settings'.config # "demo" /\ settings'.phases = settings.phases
    BY <1>1, <2>1, <2>2 DEF OperationClean, Unmarked, Settings
  <2>4. DocsUnmarked' /\ ExpiredKnown'
    BY <1>1, <2>1, <2>2, DocsStay
  <2>5. OffIsClean'
    BY <2>1, <2>2, <2>3 DEF OffIsClean
  <2>6. PICK r \in Operation :
            /\ operations' = [operations EXCEPT ![a] = r]
            /\ r.pc = "last" /\ r.doc = operations[a].doc
    BY <1>1, <2>1, GoesTo DEF OperationStages
  <2>7. OperationClean(r)'
    BY <2>1, <2>2, <2>3, <2>6 DEF OperationClean, InDemo
  <2> QED
    BY <1>1, <2>4, <2>5, <2>6, <2>7, CleanMoves
<1>16. ASSUME NEW a \in Superadmins, LastWrite(a) PROVE CleanInv'
  <2> DEFINE o == operations[a]
             d == [demo EXCEPT !.enabled = FALSE, !.until = today]
  <2>1. /\ UNCHANGED <<today, settings, demoRows, ownRows, reserved, visits, history>>
        /\ o.pc = "last"
        /\ (o.does = "reset" /\ demo' = demo) \/ (o.does # "reset" /\ demo' = d)
        /\ Forgetting(o.host)
        /\ (o.does = "enable" /\ Goes(a, "count")) \/ Done(a)
    BY <1>16 DEF LastWrite, OffNow, At
  <2>2. ~d.enabled /\ d.snapshot = demo.snapshot
    BY <1>1 DEF Doc
  <2> HIDE DEF d
  <2>3. DocsUnmarked /\ ExpiredKnown /\ OffIsClean /\ OperationClean(o)
    BY <1>2, <2>1
  <2>4. OffIsClean'
    BY <2>1, <2>3 DEF OffIsClean, OperationClean
  <2>5. \A h \in Hosts : cached'[h] = cached[h] \/ cached'[h] = NotCached
    BY <1>1, <2>1 DEF Forgetting
  <2>6. DocsUnmarked'
    BY <2>1, <2>2, <2>3, <2>5, DemoRecords DEF DocsUnmarked
  <2>7. ExpiredKnown'
    BY <2>1, <2>2, <2>3, <2>5 DEF ExpiredKnown, Active
  <2>8. CASE Done(a)
    <3>1. NoOperation \in Operation /\ operations' = [operations EXCEPT ![a] = NoOperation]
      BY <2>8, DemoRecords DEF Done
    <3> QED
      BY <1>1, <1>4, <2>4, <2>6, <2>7, <3>1, CleanMoves
  <2>9. CASE o.does = "enable" /\ Goes(a, "count")
    <3>1. PICK r \in Operation :
              /\ operations' = [operations EXCEPT ![a] = r]
              /\ r.pc = "count" /\ r.doc = o.doc
      BY <1>1, <2>9, GoesTo DEF OperationStages
    <3>2. OperationClean(r)'
      BY <2>1, <2>2, <2>3, <2>9, <3>1 DEF OperationClean, InDemo
    <3> QED
      BY <1>1, <2>4, <2>6, <2>7, <3>1, <3>2, CleanMoves
  <2> QED
    BY <2>1, <2>8, <2>9
<1> QED
  BY <1>5, <1>6, <1>7, <1>8, <1>9, <1>10, <1>11, <1>12, <1>13, <1>14, <1>15, <1>16
     DEF DemoNext, OthersStep, InsideStep

(* However many superadmins run the demo at once, and however they extend it:    *)
(* it ends within the days allowed, and deletes no voter of the organisation's   *)
(* own who was there when it was seeded.                                         *)
THEOREM DemoKept == DemoSpec => [](OwnVotersKept /\ DemoIsShort)
<1>1. DemoInv => OwnVotersKept /\ DemoIsShort
  BY DEF DemoInv
<1> QED
  BY <1>1, DemoInvInit, DemoInvStep, PTL DEF DemoSpec

(* Run by one superadmin at a time, it also leaves nothing behind: once it is    *)
(* off the settings are the organisation's own and its rows are gone, unless a   *)
(* process let an operation in on a document the database had left behind.       *)
THEOREM DemoHolds ==
    ASSUME \A a, b \in Superadmins : a = b
    PROVE  DemoSpec => []DemoSound
<1>1. DemoInv /\ CleanInv => DemoSound
  BY DEF DemoInv, CleanInv, DemoSound
<1>2. DemoInv /\ CleanInv /\ [DemoNext]_demoVars => (DemoInv /\ CleanInv)'
  BY DemoInvStep, CleanInvStep
<1> QED
  BY <1>1, <1>2, DemoInvInit, PTL DEF DemoSpec

-----------------------------------------------------------------------------
(* Type correctness: what the invariants above leave open.                     *)

SessionBounds == second \in 1 .. SessionSeconds /\ given \subseteq TokenIds /\ stamps \in 0 .. StampsMade

(* Sessions, accounts and tokens are what they are declared to be, within the bounds of the model. *)
THEOREM SessionsTyped == SessionsSpec => []SessionsTypeOK
<1>1. SessionsInit => SessionBounds
  BY SessionsAssumption DEF SessionsInit, SessionBounds
<1>2. SessionInv /\ SessionBounds /\ [SessionsNext]_sessionVars => SessionBounds'
  <2> SUFFICES ASSUME SessionInv, SessionBounds, [SessionsNext]_sessionVars
               PROVE  SessionBounds'
    OBVIOUS
  <2>1. second \in Nat /\ SessionSeconds \in Nat /\ StampsMade \in Nat
    BY SessionsAssumption DEF SessionInv, SessionTypes
  <2>2. CASE NextSecond
    BY <2>1, <2>2 DEF SessionBounds, NextSecond
  <2>3. ASSUME NEW role \in Seats, ResetPassword(role) \/ ToggleRole(role)
        PROVE  SessionBounds'
    BY <2>1, <2>3 DEF SessionBounds, ResetPassword, ToggleRole
  <2>4. ASSUME NEW c \in Signers, Revoke(c)
        PROVE  SessionBounds'
    <3>1. sessions[c].token \in TokenIds
      BY <2>4 DEF SessionInv, FitSession, Revoke, Minted
    <3> QED
      BY <2>4, <3>1 DEF SessionBounds, Revoke, GivenUp
  <2>5. ASSUME UNCHANGED <<second, given, stamps>>
        PROVE  SessionBounds'
    BY <2>5 DEF SessionBounds
  <2>6. JoinPanel("temp") \/ JoinPanel("none") => UNCHANGED <<second, given, stamps>>
    BY DEF JoinPanel
  <2>7. ASSUME NEW c \in Signers,
               \/ \E role \in Seats : BeginLogin(c, role)
               \/ \E t \in TokenIds : RequestArrives(c, t)
               \/ FinishLogin(c) \/ CheckAccount(c) \/ SwitchHat(c) \/ ReplyRevoked(c)
               \/ BeginSetPassword(c) \/ SetPassword(c)
        PROVE  UNCHANGED <<second, given, stamps>>
    BY <2>7 DEF BeginLogin, RequestArrives, FinishLogin, CheckAccount, SwitchHat, ReplyRevoked,
       BeginSetPassword, SetPassword
  <2> QED
    BY <2>2, <2>3, <2>4, <2>5, <2>6, <2>7 DEF SessionsNext, sessionVars
<1>3. SessionInv /\ SessionBounds => SessionsTypeOK
  <2> SUFFICES ASSUME SessionInv, SessionBounds
               PROVE  SessionsTypeOK
    OBVIOUS
  <2>1. second \in 1 .. SessionSeconds /\ SessionSeconds \in Nat
    BY SessionsAssumption DEF SessionInv, SessionTypes, SessionBounds, AccountsKept
  <2>2. \A d \in DOMAIN account : account[d].cutoff \in 0 .. SessionSeconds
    BY <2>1 DEF SessionInv, SessionTypes, AccountsKept, Account
  <2> QED
    BY <2>1, <2>2 DEF SessionInv, SessionTypes, SessionBounds, SessionsTypeOK
<1> QED
  BY <1>1, <1>2, <1>3, SessionsInvInit, SessionsInvStep, PTL DEF SessionsSpec

CacheBounds == now \in 1 .. CacheSeconds /\ gone \subseteq Processes

(* So are the cache of revoked tokens and the requests that read it. *)
THEOREM CacheTyped == CacheSpec => []CacheTypeOK
<1>1. CacheInit => CacheBounds
  BY CacheAssumption DEF CacheInit, CacheBounds
<1>2. CacheBounds /\ [CacheNext]_cacheVars => CacheBounds'
  <2> SUFFICES ASSUME CacheBounds, [CacheNext]_cacheVars
               PROVE  CacheBounds'
    OBVIOUS
  <2>1. CASE PassSecond
    BY <2>1, CacheAssumption DEF CacheBounds, PassSecond
  <2>2. ASSUME NEW p \in Processes, NEW c \in TokenHolders, FoundRevoked(p, c) \/ RememberRevoked(p, c)
        PROVE  CacheBounds'
    BY <2>2 DEF CacheBounds, FoundRevoked, RememberRevoked, GoneNow
  <2>3. ASSUME NEW p \in Processes, NEW c \in TokenHolders,
               TokenArrives(p, c) \/ LookUp(p, c) \/ FoundFine(p, c) \/ GoesOn(p, c) \/ InsertRevoked(p, c)
        PROVE  CacheBounds'
    BY <2>3 DEF CacheBounds, TokenArrives, LookUp, FoundFine, GoesOn, InsertRevoked
  <2>4. CASE UNCHANGED cacheVars
    BY <2>4 DEF CacheBounds, cacheVars
  <2> QED
    BY <2>1, <2>2, <2>3, <2>4 DEF CacheNext
<1>3. CacheInv /\ CacheBounds => CacheTypeOK
  BY DEF CacheInv, CacheTypes, CacheBounds, CacheTypeOK
<1> QED
  BY <1>1, <1>2, <1>3, CacheInvInit, CacheInvStep, PTL DEF CacheSpec

EditRest ==
    /\ entry \in [there : BOOLEAN, post : Posts] /\ cast \in 0 .. 1
    /\ removal \in [Members -> {"none", "approve", "deny"}]
    /\ \A m \in Members : members[m].choice \in {"none", "approve", "deny"}
    /\ DOMAIN members = Members
    /\ links \subseteq Ids /\ resend \subseteq Ids

LEMMA EditRestStep == EditInv /\ EditRest /\ [EditsNext]_editVars => EditRest'
<1> SUFFICES ASSUME EditInv, EditRest, [EditsNext]_editVars
             PROVE  EditRest'
  OBVIOUS
<1>1. app.id \in Ids /\ app.post \in Posts
  BY DEF EditInv, App
<1>2. CASE Approve
  BY <1>1, <1>2 DEF EditRest, Approve
<1>3. CASE RevertToPending
  BY <1>3 DEF EditRest, RevertToPending
<1>4. CASE CastBallot \/ AskLink \/ ResendLink
  BY <1>1, <1>4 DEF EditRest, CastBallot, AskLink, ResendLink
<1>5. ASSUME NEW e \in Editors, ReadForEdit(e) \/ CheckClash(e) \/ CountBallots(e) \/ SaveEdit(e)
      PROVE  EditRest'
  BY <1>5 DEF EditRest, ReadForEdit, CheckClash, CountBallots, SaveEdit
<1>6. ASSUME NEW e \in Editors, MoveEntry(e)
      PROVE  EditRest'
  <2>1. edits[e].want.post \in Posts
    BY <1>6 DEF EditInv, MoveEntry, AtEdit, App
  <2> QED
    BY <1>6, <2>1 DEF EditRest, MoveEntry
<1>7. ASSUME NEW e \in Editors, RevokeLinks(e)
      PROVE  EditRest'
  BY <1>7 DEF EditRest, RevokeLinks
<1>8. ASSUME NEW m \in Members, VoteToRemove(m)
      PROVE  EditRest'
  <2>1. PICK choice \in {"approve", "deny"} :
             members' = [members EXCEPT ![m] = [NoVote EXCEPT !.pc = "store", !.choice = choice]]
    BY <1>8 DEF VoteToRemove
  <2>2. PICK v : v = [NoVote EXCEPT !.pc = "store", !.choice = choice]
    OBVIOUS
  <2>3. v.choice = choice
    BY <2>2 DEF NoVote
  <2>4. \A k \in Members : members'[k].choice \in {"none", "approve", "deny"}
    BY <2>1, <2>2, <2>3 DEF EditRest
  <2> QED
    BY <1>8, <2>1, <2>4 DEF EditRest, VoteToRemove
<1>9. ASSUME NEW m \in Members, StoreVote(m)
      PROVE  EditRest'
  <2>1. \A k \in Members : members'[k].choice = members[k].choice
    BY <1>9 DEF EditRest, StoreVote
  <2> QED
    BY <1>9, <2>1 DEF EditRest, StoreVote
<1>10. ASSUME NEW m \in Members, TallyRemoval(m)
       PROVE  EditRest'
  <2>1. \A k \in Members : members'[k].choice \in {members[k].choice, "none"}
    BY <1>10 DEF EditRest, TallyRemoval, NoVote
  <2> QED
    BY <1>10, <2>1 DEF EditRest, TallyRemoval
<1>11. ASSUME NEW m \in Members, RemoveCandidate(m)
       PROVE  EditRest'
  <2>1. \A k \in Members : members'[k].choice \in {members[k].choice, "none"}
    BY <1>11 DEF EditRest, RemoveCandidate, NoVote
  <2>2. DOMAIN members' = Members /\ UNCHANGED <<cast, links, resend>>
    BY <1>11 DEF EditRest, RemoveCandidate
  <2>3. entry' \in [there : BOOLEAN, post : Posts] /\ removal' \in [Members -> {"none", "approve", "deny"}]
    BY <1>11 DEF EditRest, RemoveCandidate
  <2> QED
    BY <2>1, <2>2, <2>3 DEF EditRest
<1>12. CASE UNCHANGED editVars
  BY <1>12 DEF EditRest, editVars
<1> QED
  BY <1>2, <1>3, <1>4, <1>5, <1>6, <1>7, <1>8, <1>9, <1>10, <1>11, <1>12 DEF EditsNext

(* So are the application under correction, its entry in the list and the votes on it. *)
THEOREM EditsTyped == EditsSpec => []EditsTypeOK
<1>1. EditsInit => EditRest
  BY DEF EditsInit, EditRest, NoVote
<1>2. EditInv /\ EditRest => EditsTypeOK
  BY DEF EditInv, EditRest, EditsTypeOK, AtEdit
<1> QED
  BY <1>1, <1>2, EditRestStep, EditsInvInit, EditsInvStep, PTL DEF EditsSpec

\* Every wrong password is counted once against each counter.
LimitBounds ==
    /\ minute \in 1 .. LoginMinutes
    /\ guesses["all"] <= Failures
    /\ \A k \in LimitKeys : /\ attempts[k] + Cardinality(UncountedLogins(k)) <= guesses["all"]
                            /\ guesses[k] <= guesses["all"]
                            /\ lockedUntil[k] <= LoginMinutes + LockFor

LEMMA LimitFields ==
    ASSUME LimitInv
    PROVE  /\ \A k \in LimitKeys : attempts[k] \in Nat /\ lockedUntil[k] \in Nat /\ guesses[k] \in Nat
                                   /\ Cardinality(UncountedLogins(k)) \in Nat /\ k # "all"
           /\ guesses["all"] \in Nat /\ Failures \in Nat /\ LoginMinutes \in Nat \ {0} /\ LockFor \in Nat
           /\ \A k \in LimitKeys \cup {"all"} : k \in DOMAIN guesses
BY LoginSets, LimitsAssumption DEF LimitInv, LimitTypes, LimitKeys

\* A login that moves on without a guess and without being counted.
LEMMA BoundsRest ==
    ASSUME LimitInv, LimitBounds, NEW l \in Logins, NEW r \in Login, logins' = [logins EXCEPT ![l] = r],
           \A k \in LimitKeys : IsUncounted(r, k) => IsUncounted(logins[l], k),
           UNCHANGED <<minute, attempts, lockedUntil, guesses>>
    PROVE  LimitBounds'
<1>1. ASSUME NEW k \in LimitKeys
      PROVE  Cardinality(UncountedLogins(k)') <= Cardinality(UncountedLogins(k))
  <2>1. \A x \in Logins : logins'[x] = IF x = l THEN r ELSE logins[x]
    BY DEF LimitInv, LimitTypes
  <2>2. UncountedLogins(k)' \subseteq UncountedLogins(k)
    BY <2>1 DEF UncountedLogins, IsUncounted
  <2>3. UncountedLogins(k) \subseteq Logins
    BY DEF UncountedLogins
  <2>4. IsFiniteSet(UncountedLogins(k))
    BY <2>3, LimitNumbers, FS_Subset
  <2> QED
    BY <2>2, <2>4, FS_Subset
<1>2. ASSUME NEW k \in LimitKeys
      PROVE  Cardinality(UncountedLogins(k)') \in Nat
  BY LoginSetsNext
<1> QED
  BY <1>1, <1>2, LimitFields DEF LimitBounds

LEMMA BoundsCounted ==
    ASSUME LimitInv, LimitBounds, NEW l \in Logins, NEW k \in LimitKeys, NEW before, NEW after,
           CountFailure(l, k, before, after),
           \/ before = "count" /\ after = "lock" /\ k \in logins[l].from
           \/ before = "countAccount" /\ after = "lockAccount" /\ k = "account"
    PROVE  LimitBounds'
<1>1. PICK r : r = [logins[l] EXCEPT !.pc = after, !.counted = attempts[k] + 1]
  OBVIOUS
<1>2. /\ logins[l].pc = before /\ attempts' = [attempts EXCEPT ![k] = @ + 1]
      /\ logins' = [logins EXCEPT ![l] = r]
      /\ UNCHANGED <<minute, lockedUntil, guesses>>
  BY <1>1 DEF CountFailure
<1>3. logins[l] \in Login /\ logins \in [Logins -> Login] /\ attempts \in [LimitKeys -> Nat]
  BY DEF LimitInv, LimitTypes
<1>4. r.pc = after /\ r.from = logins[l].from
  BY <1>1, <1>3 DEF Login
<1>5. \A x \in Logins : logins'[x] = IF x = l THEN r ELSE logins[x]
  BY <1>2, <1>3
<1>6. \A j \in LimitKeys : attempts'[j] = IF j = k THEN attempts[j] + 1 ELSE attempts[j]
  BY <1>2, <1>3
<1>7. \A a \in Addresses : a # "account"
  BY LimitsAssumption
<1>8. k # "account" => logins[l].from = {k}
  <2>1. logins[l].pc # "idle" => \E a \in Addresses : logins[l].from = {a}
    BY DEF LimitInv, LimitTypes
  <2> QED
    BY <1>2, <2>1
<1>9. ASSUME NEW j \in LimitKeys
      PROVE  /\ IsUncounted(r, j) => IsUncounted(logins[l], j)
             /\ j = k => IsUncounted(logins[l], j) /\ ~IsUncounted(r, j)
  <2>1. /\ before = "count" => logins[l].from = {k} /\ k \in Addresses /\ k # "account"
        /\ before \in {"count", "countAccount"}
        /\ logins[l].pc = before /\ r.pc = after
        /\ before = "count" => after = "lock"
        /\ before = "countAccount" => after = "lockAccount" /\ k = "account"
    <3>1. logins[l].from \subseteq Addresses
      BY <1>3 DEF Login
    <3> QED
      BY <1>2, <1>4, <1>7, <1>8, <3>1
  <2>2. CASE j = "account"
    BY <2>1, <2>2 DEF IsUncounted
  <2>3. CASE j # "account"
    BY <1>4, <2>1, <2>3 DEF IsUncounted
  <2> QED
    BY <2>2, <2>3
<1>10. ASSUME NEW j \in LimitKeys
       PROVE  attempts'[j] + Cardinality(UncountedLogins(j)') <= attempts[j] + Cardinality(UncountedLogins(j))
  <2>1. UncountedLogins(j)' \in SUBSET Logins /\ UncountedLogins(j) \in SUBSET Logins
    BY DEF UncountedLogins
  <2>2. \A x \in Logins \ {l} : x \in UncountedLogins(j) <=> x \in UncountedLogins(j)'
    BY <1>5 DEF UncountedLogins, IsUncounted
  <2>3. Moved(Cardinality(UncountedLogins(j)), Cardinality(UncountedLogins(j)'),
              l \in UncountedLogins(j), l \in UncountedLogins(j)')
    BY <2>1, <2>2, CardMoves
  <2>4. /\ l \in UncountedLogins(j) <=> IsUncounted(logins[l], j)
        /\ l \in UncountedLogins(j)' <=> IsUncounted(r, j)
    BY <1>5 DEF UncountedLogins, IsUncounted
  <2>5. attempts[j] \in Nat /\ Cardinality(UncountedLogins(j)) \in Nat /\ Cardinality(UncountedLogins(j)') \in Nat
    BY LimitFields, LoginSetsNext
  <2> QED
    BY <1>6, <1>9, <2>3, <2>4, <2>5 DEF Moved
<1>11. \A j \in LimitKeys : Cardinality(UncountedLogins(j)') \in Nat /\ attempts'[j] \in Nat
  BY <1>6, LimitFields, LoginSetsNext
<1> QED
  BY <1>2, <1>10, <1>11, LimitFields DEF LimitBounds

LEMMA LimitBoundsStep == LimitInv /\ LimitBounds /\ [LimitsNext]_limitVars => LimitBounds'
<1> SUFFICES ASSUME LimitInv, LimitBounds, [LimitsNext]_limitVars
             PROVE  LimitBounds'
  OBVIOUS
<1>0. logins \in [Logins -> Login] /\ NoLogin \in Login
      /\ \A k \in LimitKeys : ~IsUncounted(NoLogin, k)
  BY DEF LimitInv, LimitTypes, NoLogin, Login, IsUncounted
<1>1. CASE UNCHANGED limitVars
  BY <1>1 DEF limitVars, LimitBounds, UncountedLogins, IsUncounted
<1>2. CASE NextMinute
  <2>1. \A k \in LimitKeys : UncountedLogins(k)' = UncountedLogins(k) /\ guesses'[k] = 0
    BY <1>2, LimitFields DEF NextMinute, UncountedLogins, IsUncounted
  <2>2. guesses'["all"] = guesses["all"] /\ minute' = minute + 1 /\ minute < LoginMinutes
        /\ UNCHANGED <<attempts, lockedUntil>>
    BY <1>2, LimitFields DEF NextMinute
  <2> QED
    BY <2>1, <2>2, LimitFields DEF LimitBounds
<1>3. ASSUME NEW l \in Logins, NEW a \in Addresses, GuessPassword(l, a)
      PROVE  LimitBounds'
  <2>1. PICK r : r = [NoLogin EXCEPT !.pc = "gate", !.from = {a}]
    OBVIOUS
  <2>2. r \in Login /\ r.pc = "gate"
    BY <2>1 DEF NoLogin, Login
  <2> QED
    BY <1>3, <2>1, <2>2, BoundsRest DEF GuessPassword, IsUncounted
<1>4. ASSUME NEW l \in Logins, PassGate(l)
      PROVE  LimitBounds'
  <2>1. PICK r : r = IF Admitted(l) THEN [logins[l] EXCEPT !.pc = "compare"] ELSE NoLogin
    OBVIOUS
  <2>2. r \in Login /\ r.pc \in {"compare", "idle"}
    BY <1>0, <2>1 DEF NoLogin, Login
  <2>3. logins' = [logins EXCEPT ![l] = r] /\ UNCHANGED <<minute, attempts, lockedUntil, guesses>>
    BY <1>4, <2>1 DEF PassGate
  <2> QED
    BY <2>2, <2>3, BoundsRest DEF IsUncounted
<1>5. ASSUME NEW l \in Logins, WrongPassword(l)
      PROVE  LimitBounds'
  <2>1. PICK r : r = [logins[l] EXCEPT !.pc = "count"]
    OBVIOUS
  <2>2. logins' = [logins EXCEPT ![l] = r] /\ UNCHANGED <<minute, attempts, lockedUntil>>
        /\ guesses["all"] < Failures
    BY <1>5, <2>1 DEF WrongPassword
  <2>3. /\ guesses'["all"] = guesses["all"] + 1
        /\ \A k \in LimitKeys : guesses'[k] \in {guesses[k], guesses[k] + 1}
    BY <1>5, LimitFields DEF WrongPassword
  <2>4. \A x \in Logins : logins'[x] = IF x = l THEN r ELSE logins[x]
    BY <1>0, <2>2
  <2>5. ASSUME NEW k \in LimitKeys
        PROVE  Cardinality(UncountedLogins(k)') <= Cardinality(UncountedLogins(k)) + 1
    <3>1. UncountedLogins(k)' \in SUBSET Logins /\ UncountedLogins(k) \in SUBSET Logins
      BY DEF UncountedLogins
    <3>2. \A x \in Logins \ {l} : x \in UncountedLogins(k) <=> x \in UncountedLogins(k)'
      BY <2>4 DEF UncountedLogins, IsUncounted
    <3>3. Moved(Cardinality(UncountedLogins(k)), Cardinality(UncountedLogins(k)'),
                l \in UncountedLogins(k), l \in UncountedLogins(k)')
      BY <3>1, <3>2, CardMoves
    <3>4. Cardinality(UncountedLogins(k)) \in Nat /\ Cardinality(UncountedLogins(k)') \in Nat
      BY LimitFields, LoginSetsNext
    <3> QED
      BY <3>3, <3>4 DEF Moved
  <2>6. \A k \in LimitKeys : Cardinality(UncountedLogins(k)') \in Nat
    BY LoginSetsNext
  <2> QED
    BY <2>2, <2>3, <2>5, <2>6, LimitFields DEF LimitBounds
<1>6. ASSUME NEW l \in Logins, RightPassword(l)
      PROVE  LimitBounds'
  <2>1. PICK r : r = [logins[l] EXCEPT !.pc = "clear"]
    OBVIOUS
  <2>2. r \in Login /\ r.pc = "clear"
    BY <1>0, <2>1 DEF Login
  <2>3. logins' = [logins EXCEPT ![l] = r] /\ UNCHANGED <<minute, attempts, lockedUntil, guesses>>
    BY <1>6, <2>1 DEF RightPassword
  <2> QED
    BY <2>2, <2>3, BoundsRest DEF IsUncounted
<1>7. ASSUME NEW l \in Logins, ClearAttempts(l)
      PROVE  LimitBounds'
  <2>1. logins' = [logins EXCEPT ![l] = NoLogin] /\ minute' = minute /\ logins[l].pc = "clear"
    BY <1>7 DEF ClearAttempts
  <2>2. /\ \A k \in LimitKeys : attempts'[k] \in {0, attempts[k]} /\ lockedUntil'[k] \in {0, lockedUntil[k]}
                                /\ guesses'[k] \in {0, guesses[k]}
        /\ guesses'["all"] = guesses["all"]
    <3>1. logins[l].from \subseteq Addresses
      BY <1>0 DEF Login
    <3>2. "all" \notin logins[l].from \cup {"account"}
      BY <3>1, LimitsAssumption
    <3> QED
      BY <1>7, <3>2, LimitFields DEF ClearAttempts
  <2>3. ASSUME NEW k \in LimitKeys
        PROVE  UncountedLogins(k)' = UncountedLogins(k)
    <3>1. \A x \in Logins : logins'[x] = IF x = l THEN NoLogin ELSE logins[x]
      BY <1>0, <2>1
    <3> QED
      BY <1>0, <2>1, <3>1 DEF UncountedLogins, IsUncounted
  <2> QED
    BY <2>1, <2>2, <2>3, LimitFields DEF LimitBounds
<1>8. ASSUME NEW l \in Logins, NEW k \in LimitKeys, NEW before, NEW after,
             LockIfDue(l, k, before, after),
             \/ before = "lock" /\ after = "countAccount"
             \/ before = "lockAccount" /\ after = "idle"
      PROVE  LimitBounds'
  <2>1. PICK r : r = IF after = "idle" THEN NoLogin ELSE [logins[l] EXCEPT !.pc = after]
    OBVIOUS
  <2>2. logins' = [logins EXCEPT ![l] = r] /\ UNCHANGED <<minute, attempts, guesses>> /\ logins[l].pc = before
    BY <1>8, <2>1 DEF LockIfDue
  <2>3. \A j \in LimitKeys : lockedUntil'[j] \in {lockedUntil[j], minute + LockFor}
    BY <1>8 DEF LockIfDue, LimitInv, LimitTypes
  <2>4. \A x \in Logins : logins'[x] = IF x = l THEN r ELSE logins[x]
    BY <1>0, <2>2
  <2>5. r.pc = after /\ (after # "idle" => r.from = logins[l].from)
    BY <1>0, <1>8, <2>1 DEF NoLogin, Login
  <2>6. \A j \in LimitKeys : UncountedLogins(j)' = UncountedLogins(j)
    BY <1>8, <2>2, <2>4, <2>5 DEF UncountedLogins, IsUncounted
  <2> QED
    BY <2>2, <2>3, <2>6, LimitFields DEF LimitBounds
<1>9. ASSUME NEW l \in Logins, RecordFailure(l)
      PROVE  LimitBounds'
  <2>1. logins[l].from \subseteq LimitKeys /\ "account" \in LimitKeys
    BY <1>0 DEF Login, LimitKeys
  <2> QED
    BY <1>8, <1>9, <2>1, BoundsCounted DEF RecordFailure
<1> QED
  BY <1>1, <1>2, <1>3, <1>4, <1>5, <1>6, <1>7, <1>9 DEF LimitsNext

(* So are the counters and locks of the logins: none counts more failures than there were. *)
THEOREM LimitsTyped == LimitsSpec => []LimitsTypeOK
<1>1. LimitsInit => LimitBounds
  <2> SUFFICES ASSUME LimitsInit
               PROVE  LimitBounds
    OBVIOUS
  <2>1. /\ guesses["all"] = 0 /\ \A k \in LimitKeys : attempts[k] = 0 /\ lockedUntil[k] = 0 /\ guesses[k] = 0
        /\ minute = 1
    BY DEF LimitsInit
  <2>2. \A k \in LimitKeys : UncountedLogins(k) = {}
    BY DEF LimitsInit, NoLogin, UncountedLogins, IsUncounted
  <2>3. Cardinality({}) = 0
    BY FS_EmptySet
  <2> QED
    BY <2>1, <2>2, <2>3, LimitsAssumption DEF LimitBounds
<1>2. LimitInv /\ LimitBounds => LimitsTypeOK
  <2> SUFFICES ASSUME LimitInv, LimitBounds
               PROVE  LimitsTypeOK
    OBVIOUS
  <2>1. \A k \in LimitKeys : /\ attempts[k] \in 0 .. Failures /\ guesses[k] \in 0 .. Failures
                             /\ lockedUntil[k] \in 0 .. LoginMinutes + LockFor
    BY LimitFields DEF LimitBounds
  <2>2. guesses["all"] \in 0 .. Failures
    BY LimitFields DEF LimitBounds
  <2> QED
    BY <2>1, <2>2 DEF LimitInv, LimitTypes, LimitBounds, LimitsTypeOK
<1> QED
  BY <1>1, <1>2, LimitBoundsStep, LimitsInvInit, LimitsInvStep, PTL DEF LimitsSpec

\* The bounds of the clock, the files, the applications and the failures.
FormBounds ==
    /\ hour <= Hours /\ rule \in Rules
    /\ bucket \subseteq Files /\ sweep \subseteq Files
    /\ applications \subseteq Submissions /\ archive \subseteq Submissions /\ purged \subseteq Submissions
    /\ phones \in [Applicants -> {"none", "applicant", "reviewed"}]
    /\ clerks \in [Clerks -> [pc : ClerkStages, app : SUBSET Submissions]]
    /\ faults \in [bucket : Nat, insert : Nat] /\ faults.bucket + faults.insert <= FormFaults

LEMMA FaultCounted ==
    ASSUME FormBounds, FaultsLeft, NEW k \in {"bucket", "insert"}, faults' = [faults EXCEPT ![k] = @ + 1]
    PROVE  faults' \in [bucket : Nat, insert : Nat] /\ faults'.bucket + faults'.insert <= FormFaults
<1>1. /\ faults'.bucket = faults.bucket + (IF k = "bucket" THEN 1 ELSE 0)
      /\ faults'.insert = faults.insert + (IF k = "insert" THEN 1 ELSE 0)
      /\ faults' \in [bucket : Nat, insert : Nat]
  BY DEF FormBounds
<1>2. /\ FormFaults \in Nat /\ faults.bucket \in Nat /\ faults.insert \in Nat
      /\ faults.bucket + faults.insert < FormFaults
  BY NominationAssumption DEF FaultsLeft, FormBounds
<1> QED
  BY <1>1, <1>2

LEMMA ClerkTyped ==
    ASSUME FormBounds, NEW c \in Clerks, NEW pc \in ClerkStages, NEW s \in Submissions, ClerkTo(c, pc, s)
    PROVE  clerks' \in [Clerks -> [pc : ClerkStages, app : SUBSET Submissions]]
<1>1. PICK r : r = IF pc = "idle" THEN NoClerk ELSE [pc |-> pc, app |-> {s}]
  OBVIOUS
<1>2. r \in [pc : ClerkStages, app : SUBSET Submissions]
  BY <1>1 DEF NoClerk, ClerkStages
<1>3. clerks' = [clerks EXCEPT ![c] = r]
  BY <1>1 DEF ClerkTo
<1> QED
  BY <1>2, <1>3 DEF FormBounds

LEMMA FormBoundsStep == NominationInv /\ FormBounds /\ [NominationNext]_nominationVars => FormBounds'
<1> SUFFICES ASSUME NominationInv, FormBounds, [NominationNext]_nominationVars
             PROVE  FormBounds'
  OBVIOUS
<1>0. hour \in Nat /\ Hours \in Nat /\ submissions \in [Submissions -> Submission] /\ DOMAIN phones = Applicants
  BY NominationAssumption DEF NominationInv, FormTypes
<1>1. CASE UNCHANGED nominationVars
  BY <1>1 DEF nominationVars, FormBounds
<1>2. CASE NextHour
  BY <1>0, <1>2 DEF NextHour, FormBounds
<1>3. ASSUME NEW r \in Rules, SetRule(r)
      PROVE  FormBounds'
  BY <1>3 DEF SetRule, FormBounds
<1>4. CASE FindStale
  BY <1>4 DEF FindStale, FormBounds
<1>5. ASSUME NEW f \in Files, PutObject(f) \/ RecordUpload(f) \/ SweepRecord(f)
      PROVE  FormBounds'
  BY <1>5 DEF PutObject, RecordUpload, SweepRecord, FormBounds
<1>6. ASSUME NEW f \in Files, SweepObject(f)
      PROVE  FormBounds'
  <2>1. CASE UNCHANGED faults
    BY <1>6, <2>1 DEF SweepObject, FormBounds
  <2>2. CASE FaultsLeft /\ faults' = [faults EXCEPT !.bucket = @ + 1]
    BY <1>6, <2>2, FaultCounted DEF SweepObject, FormBounds
  <2> QED
    BY <1>6, <2>1, <2>2 DEF SweepObject
<1>7. ASSUME NEW s \in Submissions, \/ \E a \in Applicants, f \in Files \cup {NoFile} : Check(s, a, f)
                                    \/ Claim(s) \/ GiveBack(s)
      PROVE  FormBounds'
  BY <1>7 DEF Check, Claim, GiveBack, FormBounds
<1>8. ASSUME NEW s \in Submissions, InsertApplication(s)
      PROVE  FormBounds'
  <2>1. applications' \in {applications, applications \cup {s}}
    BY <1>8 DEF InsertApplication, Stored
  <2>2. UNCHANGED <<hour, rule, bucket, uploads, archive, phones, sweep, clerks, reviewed, purged>>
    BY <1>8 DEF InsertApplication
  <2>3. CASE UNCHANGED faults
    BY <2>1, <2>2, <2>3 DEF FormBounds
  <2>4. CASE FaultsLeft /\ faults' = [faults EXCEPT !.insert = @ + 1]
    BY <2>1, <2>2, <2>4, FaultCounted DEF FormBounds
  <2> QED
    BY <1>8, <2>3, <2>4 DEF InsertApplication
<1>9. ASSUME NEW s \in Submissions, SavePhone(s)
      PROVE  FormBounds'
  <2>1. phones' \in [Applicants -> {"none", "applicant", "reviewed"}]
    BY <1>9 DEF SavePhone, FormBounds
  <2> QED
    BY <1>9, <2>1 DEF SavePhone, FormBounds
<1>10. ASSUME NEW a \in Applicants, ReviewedPhone(a)
       PROVE  FormBounds'
  <2>1. phones' \in [Applicants -> {"none", "applicant", "reviewed"}]
    BY <1>10 DEF ReviewedPhone, FormBounds
  <2> QED
    BY <1>10, <2>1 DEF ReviewedPhone, FormBounds
<1>11. ASSUME NEW c \in Clerks, NEW s \in Submissions,
              \/ Archive(c, s) \/ TakeOut(c, s) \/ HardDelete(c, s) \/ PutBack(c, s) \/ DropCopy(c, s)
              \/ PurgeArchived(c, s) \/ RemoveRecord(c, s)
       PROVE  FormBounds'
  <2>1. ClerkTo(c, "archived", s) \/ ClerkTo(c, "idle", s) \/ ClerkTo(c, "files", s) \/ ClerkTo(c, "restored", s)
    BY <1>11 DEF Archive, TakeOut, HardDelete, PutBack, DropCopy, PurgeArchived, RemoveRecord
  <2>2. {"archived", "idle", "files", "restored"} \subseteq ClerkStages
    BY DEF ClerkStages
  <2>3. clerks' \in [Clerks -> [pc : ClerkStages, app : SUBSET Submissions]]
    BY <2>1, <2>2, ClerkTyped
  <2>4. /\ applications' \in {applications, applications \cup {s}, applications \ {s}}
        /\ archive' \in {archive, archive \cup {s}, archive \ {s}}
        /\ purged' \in {purged, purged \cup {s}}
        /\ UNCHANGED <<hour, rule, bucket, phones, sweep, faults>>
    BY <1>11 DEF Archive, TakeOut, HardDelete, PutBack, DropCopy, PurgeArchived, RemoveRecord
  <2> QED
    BY <2>3, <2>4 DEF FormBounds
<1>12. ASSUME NEW c \in Clerks, NEW s \in Submissions, RemoveObject(c, s)
       PROVE  FormBounds'
  <2>1. clerks' \in [Clerks -> [pc : ClerkStages, app : SUBSET Submissions]]
    BY <1>12, ClerkTyped DEF RemoveObject, ClerkStages
  <2>2. bucket' \in {bucket, bucket \ {forms[s].file}}
        /\ UNCHANGED <<hour, rule, applications, archive, phones, sweep, purged>>
    BY <1>12 DEF RemoveObject
  <2>3. CASE UNCHANGED faults
    BY <2>1, <2>2, <2>3 DEF FormBounds
  <2>4. CASE FaultsLeft /\ faults' = [faults EXCEPT !.bucket = @ + 1]
    BY <2>1, <2>2, <2>4, FaultCounted DEF FormBounds
  <2> QED
    BY <1>12, <2>3, <2>4 DEF RemoveObject
<1> QED
  BY <1>1, <1>2, <1>3, <1>4, <1>5, <1>6, <1>7, <1>8, <1>9, <1>10, <1>11, <1>12 DEF NominationNext

(* So are the forms, their records and the applications. *)
THEOREM FormsTyped == NominationSpec => []NominationTypeOK
<1>1. NominationInit => FormBounds
  <2> SUFFICES ASSUME NominationInit
               PROVE  FormBounds
    OBVIOUS
  <2>1. faults = [bucket |-> 0, insert |-> 0] /\ hour = 0 /\ rule \in Rules /\ bucket = {} /\ sweep = {}
        /\ applications = {} /\ archive = {} /\ purged = {}
    BY DEF NominationInit
  <2>2. phones \in [Applicants -> {"none", "applicant", "reviewed"}]
    BY DEF NominationInit
  <2>3. clerks \in [Clerks -> [pc : ClerkStages, app : SUBSET Submissions]]
    BY DEF NominationInit, NoClerk, ClerkStages
  <2>4. Hours \in Nat /\ FormFaults \in Nat
    BY NominationAssumption
  <2>5. faults \in [bucket : Nat, insert : Nat] /\ faults.bucket = 0 /\ faults.insert = 0
    BY <2>1
  <2> QED
    BY <2>1, <2>2, <2>3, <2>4, <2>5 DEF FormBounds
<1>2. NominationInv /\ FormBounds => NominationTypeOK
  <2> SUFFICES ASSUME NominationInv, FormBounds
               PROVE  NominationTypeOK
    OBVIOUS
  <2>1. faults \in [bucket : 0 .. FormFaults, insert : 0 .. FormFaults]
    <3>1. faults.bucket \in 0 .. FormFaults /\ faults.insert \in 0 .. FormFaults
      BY NominationAssumption DEF FormBounds
    <3> QED
      BY <3>1 DEF FormBounds
  <2>2. hour \in 0 .. Hours /\ {applications, archive, doubtful, purged} \subseteq SUBSET Submissions
    BY NominationAssumption DEF NominationInv, FormTypes, FormBounds
  <2>3. forms \in [Submissions -> [file : Files \cup {NoFile}, required : BOOLEAN]]
    BY DEF NominationInv, FormTypes, Form
  <2> QED
    BY <2>1, <2>2, <2>3 DEF NominationInv, FormTypes, FormBounds, NominationTypeOK
<1> QED
  BY <1>1, <1>2, FormBoundsStep, NominationInvInit, NominationInvStep, PTL DEF NominationSpec

\* The days of the clock and the collections that hold rows.
DemoBounds ==
    /\ today \in 1 .. LastDay
    /\ demoRows \subseteq Tagged /\ ownRows \subseteq Activity \cup {"positions"}
    /\ reserved \in {"free", "real", "taken"}

(* So are the settings, the rows and the operations of a demo. *)
THEOREM DemoTyped == DemoSpec => []DemoTypeOK
<1>1. DemoInit => DemoBounds
  BY DemoAssumption DEF DemoInit, DemoBounds
<1>2. DemoBounds /\ [DemoNext]_demoVars => DemoBounds'
  <2> SUFFICES ASSUME DemoBounds, [DemoNext]_demoVars
               PROVE  DemoBounds'
    OBVIOUS
  <2>1. CASE NextDay
    BY <2>1, DemoAssumption DEF NextDay, DemoBounds
  <2>2. CASE OwnVoter
    BY <2>2 DEF OwnVoter, DemoBounds
  <2>3. ASSUME NEW v \in Visitors, VisitWrites(v)
        PROVE  DemoBounds'
    BY <2>3 DEF VisitWrites, DemoBounds, Tagged, Activity
  <2>4. ASSUME NEW a \in Superadmins, AddVoters(a) \/ AddPosts(a) \/ AddPanel(a) \/ AddApplications(a) \/ Resolve(a)
        PROVE  DemoBounds'
    BY <2>4 DEF AddVoters, AddPosts, AddPanel, AddApplications, Resolve, DemoBounds, Tagged, Activity
  <2>5. ASSUME NEW a \in Superadmins, AssignRoles(a) \/ DeleteTagged(a)
        PROVE  DemoBounds'
    BY <2>5 DEF AssignRoles, DeleteTagged, DemoBounds
  <2>6. ASSUME UNCHANGED <<today, demoRows, ownRows, reserved>>
        PROVE  DemoBounds'
    BY <2>6 DEF DemoBounds
  <2>7. ASSUME \/ OwnChange
               \/ \E v \in Visitors : VisitTold(v) \/ VisitLeaves(v) \/ \E h \in Hosts : Visit(v, h)
               \/ \E h \in Hosts : Restart(h)
        PROVE  UNCHANGED <<today, demoRows, ownRows, reserved>>
    BY <2>7 DEF OwnChange, VisitTold, VisitLeaves, Visit, Restart
  <2>8. ASSUME NEW a \in Superadmins,
               \/ \E h \in Hosts : Ask(a, h) \/ \E days \in DayChoices : AskEnable(a, h, days)
               \/ CountActivity(a) \/ TakeSnapshot(a) \/ SwitchOn(a)
               \/ \E days \in DayChoices : ExtendDemo(a, days)
               \/ CheckReserved(a) \/ SaveCredentials(a) \/ WriteSchedule(a) \/ WriteGate(a)
               \/ RestorePhases(a) \/ RestoreConfig(a) \/ LastWrite(a)
        PROVE  UNCHANGED <<today, demoRows, ownRows, reserved>>
    BY <2>8 DEF Ask, EnterDemo, AskEnable, CountActivity, TakeSnapshot, SwitchOn, ExtendDemo, CheckReserved,
       SaveCredentials, WriteSchedule, WriteGate, RestorePhases, RestoreConfig, LastWrite
  <2> QED
    BY <2>1, <2>2, <2>3, <2>4, <2>5, <2>6, <2>7, <2>8 DEF DemoNext, demoVars
<1>3. DemoInv /\ DemoBounds => DemoTypeOK
  <2> SUFFICES ASSUME DemoInv, DemoBounds
               PROVE  DemoTypeOK
    OBVIOUS
  <2>1. \A a \in Superadmins : operations[a].doc \in Doc /\ operations[a].taken \in Settings
    BY DEF DemoInv, DemoTypes, Operation
  <2>2. \A v \in Visitors : visits[v].doc \in Doc
    BY DEF DemoInv, DemoTypes, VisitRecord
  <2> QED
    BY <2>1, <2>2 DEF DemoInv, DemoTypes, DemoBounds, DemoTypeOK
<1> QED
  BY <1>1, <1>2, <1>3, DemoInvInit, DemoInvStep, PTL DEF DemoSpec

\* A copy is of what its document can say; so is what a request has read of it.
ValuesOf(d) == IF d = "security" THEN Modes ELSE Statuses

CopyTyped(c, d) == c = NoCopy \/ c.value \in ValuesOf(d)

PollTyped(r) ==
    /\ r.mode \in Modes \cup {"none"}
    /\ r.fetched # "none" => r.pc \in Documents /\ r.fetched \in ValuesOf(r.pc)

ReleaseBounds ==
    /\ moment \in 1 .. Seconds /\ ballots <= BallotsCast
    /\ changed.times \in 0 .. Changes
    /\ \A p \in Servers, d \in Documents : CopyTyped(releaseSettings[p][d], d)
    /\ \A q \in Polls : PollTyped(polls[q])

LEMMA PollStaysTyped ==
    ASSUME ReleaseInv, ReleaseBounds, NEW q \in Polls, NEW r, polls' = [polls EXCEPT ![q] = r], PollTyped(r),
           \A p \in Servers, d \in Documents : CopyTyped(releaseSettings'[p][d], d),
           UNCHANGED <<moment, ballots, changed>>
    PROVE  ReleaseBounds'
<1>1. \A x \in Polls : polls'[x] = IF x = q THEN r ELSE polls[x]
  BY DEF ReleaseInv, ReleaseTypes
<1>2. \A x \in Polls : PollTyped(polls'[x])
  BY <1>1 DEF ReleaseBounds
<1>3. /\ \A x \in Polls : PollTyped(polls[x])'
      /\ \A p \in Servers, d \in Documents : CopyTyped(releaseSettings[p][d], d)'
  BY <1>2 DEF PollTyped, CopyTyped
<1> QED
  BY <1>3 DEF ReleaseBounds

LEMMA TookTyped ==
    ASSUME ReleaseInv, ReleaseBounds, NEW q \in Polls, NEW d \in Documents, NEW v \in ValuesOf(d), Took(q, d, v)
    PROVE  \E r : polls' = [polls EXCEPT ![q] = r] /\ PollTyped(r)
<1> DEFINE p == polls[q]
<1>1. p \in PollRecord /\ PollTyped(p)
  BY DEF ReleaseInv, ReleaseTypes, ReleaseBounds
<1>2. CASE d = "config" /\ p.kind = "status"
  <2>1. PollTyped(NoPoll)
    BY DEF PollTyped, NoPoll
  <2> QED
    BY <1>2, <2>1 DEF Took
<1>3. CASE d = "security"
  <2> DEFINE r == [p EXCEPT !.pc = "config", !.mode = v, !.fetched = "none"]
  <2>1. polls' = [polls EXCEPT ![q] = r]
    BY <1>3 DEF Took
  <2>2. r.mode = v /\ r.fetched = "none"
    BY <1>1 DEF PollRecord
  <2> HIDE DEF r
  <2>3. PollTyped(r)
    BY <1>3, <2>2 DEF PollTyped, ValuesOf
  <2> QED
    BY <2>1, <2>3
<1>4. CASE d = "config" /\ p.kind # "status"
  <2> DEFINE yes == Decided(p, v)
             kept == results[p.at][KeyOf(p.kind, yes)]
             asks == p.kind = "results" \/ (p.kind = "band" /\ yes)
             r == [p EXCEPT !.pc = IF asks /\ ~Fresh(kept) THEN "turnout" ELSE "answered",
                            !.mode = "none", !.fetched = "none", !.released = yes,
                            !.answer = IF asks /\ Fresh(kept) THEN kept.answer ELSE NoAnswer]
  <2>1. polls' = [polls EXCEPT ![q] = r]
    BY <1>4 DEF Took
  <2>2. r.mode = "none" /\ r.fetched = "none"
    BY <1>1 DEF PollRecord
  <2> HIDE DEF r
  <2>3. PollTyped(r)
    BY <2>2 DEF PollTyped
  <2> QED
    BY <2>1, <2>3
<1> QED
  BY <1>2, <1>3, <1>4 DEF Documents

LEMMA ReleaseBoundsStep == ReleaseInv /\ ReleaseBounds /\ [ReleaseNext]_releaseVars => ReleaseBounds'
<1> SUFFICES ASSUME ReleaseInv, ReleaseBounds, [ReleaseNext]_releaseVars
             PROVE  ReleaseBounds'
  OBVIOUS
<1>0. /\ moment \in Nat /\ ballots \in Nat /\ status \in Statuses /\ mode \in Modes
      /\ {Seconds, BallotsCast, Changes} \subseteq Nat
      /\ \A p \in Servers, d \in Documents : CopyTyped(releaseSettings[p][d], d)
      /\ \A q \in Polls : polls[q] \in PollRecord /\ PollTyped(polls[q])
      /\ DOMAIN releaseSettings = Servers /\ \A p \in Servers : DOMAIN releaseSettings[p] = Documents
  BY ReleaseAssumption DEF ReleaseInv, ReleaseTypes, ReleaseBounds
<1>1. CASE UNCHANGED releaseVars
  BY <1>1 DEF releaseVars, ReleaseBounds, CopyTyped, PollTyped
<1>2. CASE MomentPasses
  <2>1. \A p \in Servers, d \in Documents : CopyTyped(releaseSettings'[p][d], d)
    BY <1>0, <1>2 DEF MomentPasses, CopyTyped
  <2>2. \A q \in Polls : PollTyped(polls'[q])
    BY <1>0, <1>2 DEF MomentPasses
  <2>3. moment' \in 1 .. Seconds /\ UNCHANGED <<ballots, changed>>
    BY <1>0, <1>2 DEF MomentPasses, ReleaseBounds
  <2> QED
    BY <2>1, <2>2, <2>3 DEF ReleaseBounds, CopyTyped, PollTyped
<1>3. CASE Cast
  BY <1>0, <1>3 DEF Cast, ReleaseBounds, CopyTyped, PollTyped
<1>4. ASSUME NEW p \in Servers \cup {Elsewhere}, Changing(p)
      PROVE  ReleaseBounds'
  <2>1. \A x \in Servers, d \in Documents : CopyTyped(releaseSettings'[x][d], d)
    BY <1>0, <1>4 DEF Changing, Forgets, CopyTyped
  <2>2. changed'.times \in 0 .. Changes /\ UNCHANGED <<moment, ballots, polls>>
    BY <1>0, <1>4 DEF Changing, ReleaseBounds
  <2> QED
    BY <1>0, <2>1, <2>2 DEF ReleaseBounds, CopyTyped, PollTyped
<1>5. ASSUME NEW q \in Polls, NEW p \in Servers, NEW k, NEW a, NEW pc, Asks(q, p, k, a, pc)
      PROVE  ReleaseBounds'
  <2>1. PICK r : r = [NoPoll EXCEPT !.pc = pc, !.at = p, !.kind = k, !.admin = a,
                                    !.arrived = moment, !.released = k = "exact"]
    OBVIOUS
  <2>2. polls' = [polls EXCEPT ![q] = r] /\ UNCHANGED <<moment, ballots, changed, releaseSettings>>
    BY <1>5, <2>1 DEF Asks
  <2>3. PollTyped(r)
    BY <2>1 DEF PollTyped, NoPoll
  <2> QED
    BY <1>0, <2>2, <2>3, PollStaysTyped
<1>6. ASSUME NEW q \in Polls, NEW d \in Documents, UseCopy(q, d)
      PROVE  ReleaseBounds'
  <2>1. polls[q].at \in Servers
    BY <1>6 DEF UseCopy, ReleaseInv, PollFits, Documents
  <2>2. releaseSettings[polls[q].at][d].value \in ValuesOf(d)
    <3>1. ~Fresh(NoCopy)
      BY <1>0 DEF Fresh, NoCopy
    <3> QED
      BY <1>0, <1>6, <2>1, <3>1 DEF UseCopy, CopyTyped
  <2>3. PICK r : polls' = [polls EXCEPT ![q] = r] /\ PollTyped(r)
    BY <1>6, <2>2, TookTyped DEF UseCopy
  <2>4. UNCHANGED <<moment, ballots, changed, releaseSettings>>
    BY <1>6 DEF UseCopy
  <2> QED
    BY <1>0, <2>3, <2>4, PollStaysTyped
<1>7. ASSUME NEW q \in Polls, NEW d \in Documents, Fetch(q, d)
      PROVE  ReleaseBounds'
  <2>1. PICK r : r = [polls[q] EXCEPT !.fetched = Current(d)]
    OBVIOUS
  <2>2. polls' = [polls EXCEPT ![q] = r] /\ UNCHANGED <<moment, ballots, changed, releaseSettings>> /\ polls[q].pc = d
    BY <1>7, <2>1 DEF Fetch
  <2>3. r.pc = polls[q].pc /\ r.mode = polls[q].mode /\ r.fetched = Current(d)
    BY <1>0, <2>1 DEF PollRecord
  <2>4. PollTyped(r)
    BY <1>0, <2>2, <2>3 DEF PollTyped, ValuesOf, Current, Documents
  <2> QED
    BY <1>0, <2>2, <2>4, PollStaysTyped
<1>8. ASSUME NEW q \in Polls, NEW d \in Documents, Keep(q, d)
      PROVE  ReleaseBounds'
  <2>1. polls[q].fetched \in ValuesOf(d)
    BY <1>0, <1>8 DEF Keep, PollTyped
  <2>2. PICK r : polls' = [polls EXCEPT ![q] = r] /\ PollTyped(r)
    BY <1>8, <2>1, TookTyped DEF Keep
  <2>3. PICK c : c = [value |-> polls[q].fetched, until |-> moment + SettingsTTL]
    OBVIOUS
  <2>4. releaseSettings' = [releaseSettings EXCEPT ![polls[q].at][d] = c] /\ CopyTyped(c, d)
        /\ UNCHANGED <<moment, ballots, changed>>
    BY <1>8, <2>1, <2>3 DEF Keep, CopyTyped
  <2>5. \A p \in Servers, e \in Documents : releaseSettings'[p][e] \in {c, releaseSettings[p][e]}
                                           /\ (e # d => releaseSettings'[p][e] = releaseSettings[p][e])
    BY <1>0, <2>4
  <2> QED
    BY <1>0, <2>2, <2>4, <2>5, PollStaysTyped
<1>9. ASSUME NEW q \in Polls, CountFirst(q) \/ CountSecond(q) \/ StoreAnswer(q)
      PROVE  ReleaseBounds'
  <2>1. PICK r : polls' = [polls EXCEPT ![q] = r] /\ r.mode = polls[q].mode /\ r.fetched = polls[q].fetched
    <3>1. CASE CountFirst(q)
      <4>1. PICK v : v = [polls[q].answer EXCEPT ![Order[1]] = ballots]
        OBVIOUS
      <4>2. PICK r : r = [polls[q] EXCEPT !.pc = "count", !.answer = v]
        OBVIOUS
      <4>3. polls' = [polls EXCEPT ![q] = r]
        BY <1>0, <3>1, <4>1, <4>2 DEF CountFirst, PollRecord, ReleaseInv, ReleaseTypes
      <4>4. polls[q] \in PollRecord
        BY <1>0
      <4>5. r.mode = polls[q].mode /\ r.fetched = polls[q].fetched
        BY <4>2, <4>4 DEF PollRecord
      <4> QED
        BY <4>3, <4>5
    <3>2. CASE CountSecond(q)
      <4>1. PICK v : v = IF polls[q].released
                         THEN [polls[q].answer EXCEPT !.tally = TRUE, ![Order[2]] = ballots] ELSE polls[q].answer
        OBVIOUS
      <4>2. PICK r : r = [polls[q] EXCEPT !.pc = IF polls[q].kind = "exact" THEN "answered" ELSE "store", !.answer = v]
        OBVIOUS
      <4>3. polls' = [polls EXCEPT ![q] = r]
        BY <1>0, <3>2, <4>1, <4>2 DEF CountSecond, PollRecord, ReleaseInv, ReleaseTypes
      <4>4. polls[q] \in PollRecord
        BY <1>0
      <4>5. r.mode = polls[q].mode /\ r.fetched = polls[q].fetched
        BY <4>2, <4>4 DEF PollRecord
      <4> QED
        BY <4>3, <4>5
    <3>3. CASE StoreAnswer(q)
      <4>1. PICK r : r = [polls[q] EXCEPT !.pc = "answered"]
        OBVIOUS
      <4>2. polls' = [polls EXCEPT ![q] = r]
        BY <3>3, <4>1 DEF StoreAnswer
      <4>3. polls[q] \in PollRecord
        BY <1>0
      <4>4. r.mode = polls[q].mode /\ r.fetched = polls[q].fetched
        BY <4>1, <4>3 DEF PollRecord
      <4> QED
        BY <4>2, <4>4
    <3> QED
      BY <1>9, <3>1, <3>2, <3>3
  <2>2. polls[q].fetched = "none"
    BY <1>0, <1>9 DEF CountFirst, CountSecond, StoreAnswer, PollTyped, Documents
  <2>3. UNCHANGED <<moment, ballots, changed, releaseSettings>>
    BY <1>9 DEF CountFirst, CountSecond, StoreAnswer
  <2>4. PollTyped(r)
    BY <1>0, <2>1, <2>2 DEF PollTyped
  <2> QED
    BY <1>0, <2>1, <2>3, <2>4, PollStaysTyped
<1>10. ASSUME NEW q \in Polls, NEW p \in Servers,
              \/ \E a \in BOOLEAN : AskResults(q, p, a)
              \/ AskBand(q, p) \/ AskStatus(q, p)
              \/ AskReport(q, p) \/ AskStandings(q, p) \/ AskDashboard(q, p) \/ AskUndervote(q, p)
       PROVE  ReleaseBounds'
  BY <1>5, <1>10 DEF AskResults, AskBand, AskStatus, AskReport, AskStandings, AskDashboard, AskUndervote
<1>11. ASSUME NEW p \in Servers \cup {Elsewhere},
              (\E s \in Statuses : SetStatus(p, s)) \/ (\E m \in Modes : SetMode(p, m))
       PROVE  ReleaseBounds'
  BY <1>4, <1>11 DEF SetStatus, SetMode
<1> QED
  BY <1>1, <1>2, <1>3, <1>6, <1>7, <1>8, <1>9, <1>10, <1>11 DEF ReleaseNext

(* So are the copies of the settings and the answers: a copy of the rule is never a state of the election. *)
THEOREM ReleaseTyped == ReleaseSpec => []ReleaseTypeOK
<1>1. ReleaseInit => ReleaseBounds
  <2> SUFFICES ASSUME ReleaseInit
               PROVE  ReleaseBounds
    OBVIOUS
  <2> HIDE DEF NoPoll, NoCopy
  <2>1. /\ \A p \in Servers, d \in Documents : releaseSettings[p][d] = NoCopy
        /\ \A q \in Polls : polls[q] = NoPoll
        /\ moment = 1 /\ ballots = 0 /\ changed = [at |-> 0, times |-> 0]
    BY DEF ReleaseInit
  <2>2. PollTyped(NoPoll)
    BY DEF PollTyped, NoPoll
  <2> QED
    BY <2>1, <2>2, ReleaseAssumption DEF ReleaseBounds, CopyTyped
<1>2. ReleaseInv /\ ReleaseBounds => ReleaseTypeOK
  <2> SUFFICES ASSUME ReleaseInv, ReleaseBounds
               PROVE  ReleaseTypeOK
    OBVIOUS
  <2>1. \A q \in Polls : polls[q] \in Poll
    <3> SUFFICES ASSUME NEW q \in Polls
                 PROVE  polls[q] \in Poll
      OBVIOUS
    <3>1. polls[q] \in PollRecord /\ polls[q].mode \in Modes \cup {"none"}
      BY DEF ReleaseInv, ReleaseTypes, ReleaseBounds, PollTyped
    <3> QED
      BY <3>1 DEF PollRecord, Poll, Values
  <2>2. polls \in [Polls -> Poll]
    BY <2>1 DEF ReleaseInv, ReleaseTypes
  <2>3. ballots \in 0 .. BallotsCast /\ changed.at \in 0 .. moment
    BY ReleaseAssumption DEF ReleaseInv, ReleaseTypes, ReleaseBounds
  <2>4. earlier \in [1 .. Seconds -> 0 .. BallotsCast]
    <3>1. \A s \in 1 .. Seconds : earlier[s] \in 0 .. BallotsCast
      BY <2>3, ReleaseAssumption DEF ReleaseInv, ReleaseTypes, EarlierKept
    <3> QED
      BY <3>1 DEF ReleaseInv, ReleaseTypes
  <2>5. \A p \in Servers, k \in PollKeys : results[p][k].answer \in Answer
    BY DEF ReleaseInv, ReleaseTypes, KeptResult
  <2>6. \A p \in Servers, d \in Documents :
          releaseSettings[p][d] = NoCopy \/ releaseSettings[p][d].value \in IF d = "security" THEN Modes ELSE Statuses
    BY DEF ReleaseBounds, CopyTyped, ValuesOf
  <2> QED
    BY <2>2, <2>3, <2>4, <2>5, <2>6 DEF ReleaseInv, ReleaseTypes, ReleaseBounds, ReleaseTypeOK
<1> QED
  BY <1>1, <1>2, ReleaseBoundsStep, ReleaseInvInit, ReleaseInvStep, PTL DEF ReleaseSpec

-----------------------------------------------------------------------------
(* The composition: each component takes its own steps, the others rest.       *)

LEMMA EachPartRuns ==
    Spec => /\ SessionsSpec /\ CacheSpec /\ LimitsSpec /\ NominationSpec
            /\ ReleaseSpec /\ DemoSpec /\ EditsSpec
<1>1. Init => /\ SessionsInit /\ CacheInit /\ LimitsInit /\ NominationInit
              /\ ReleaseInit /\ DemoInit /\ EditsInit
  BY DEF Init
<1>2. [Next]_vars => /\ [SessionsNext]_sessionVars /\ [CacheNext]_cacheVars /\ [LimitsNext]_limitVars
                     /\ [NominationNext]_nominationVars /\ [ReleaseNext]_releaseVars
                     /\ [DemoNext]_demoVars /\ [EditsNext]_editVars
  BY DEF Next, vars
<1> QED
  BY <1>1, <1>2, PTL DEF Spec, SessionsSpec, CacheSpec, LimitsSpec, NominationSpec, ReleaseSpec, DemoSpec, EditsSpec

(* Nobody is let in whom the code means to keep out: LoginsSound holds of      *)
(* sessions, revoked tokens and login limits together.                         *)
THEOREM NobodySlipsIn == Spec => []LoginsSound
  BY EachPartRuns, SessionsHold, RevokedStayOut, LimitsHold, PTL DEF LoginsSound

(* Type correctness of everything that decides who gets in and what is seen.   *)
THEOREM AccessTypeCorrect == Spec => []AccessTypeOK
<1>1. Spec => [](part \in Parts)
  <2>1. Init => part \in Parts
    BY DEF Init
  <2>2. part \in Parts /\ [Next]_vars => (part \in Parts)'
    BY DEF Next, vars
  <2> QED
    BY <2>1, <2>2, PTL DEF Spec
<1>2. /\ part \in Parts
      /\ SessionsTypeOK /\ CacheTypeOK /\ LimitsTypeOK /\ NominationTypeOK /\ ReleaseTypeOK
      /\ DemoTypeOK /\ EditsTypeOK
      => AccessTypeOK
  BY DEF Parts, AccessTypeOK
<1> QED
  BY <1>1, <1>2, EachPartRuns, SessionsTyped, CacheTyped, LimitsTyped, FormsTyped, ReleaseTyped, DemoTyped,
     EditsTyped, PTL
===================================================================================
