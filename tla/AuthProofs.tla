------------------------------ MODULE AuthProofs ------------------------------
(***************************************************************************)
(* Accounts and sessions, for any phones, tokens and requests in flight,   *)
(* and with requests that die.                                             *)
(***************************************************************************)
EXTENDS AuthService, TLAPS

\* Only the request that inserted a user goes on to his wallet and his code, and
\* until it has he has no code; who has a code has a wallet.
Registrations ==
    /\ \A w, v \in Workers :
         {req[w].pc, req[v].pc} \subseteq {"createWallet", "createOtp"} /\ req[w].p = req[v].p
             => w = v
    /\ \A w \in Workers :
         /\ req[w].pc \in {"createWallet", "createOtp"} =>
              user[req[w].p] = "INACTIVE" /\ otp[req[w].p] = "ABSENT"
         /\ req[w].pc = "createOtp" => req[w].p \in wallets
         /\ req[w].pc = "activate" => otp[req[w].p] # "ABSENT"
    /\ \A p \in Phones : otp[p] # "ABSENT" => p \in wallets /\ user[p] # "ABSENT"

\* A token is somebody's; the key of one that was logged out, and that Redis took, is
\* gone only when nobody can hand it in.
Revocations ==
    /\ \A t \in Tokens : token[t].state = "LIVE" => token[t].phone \in Phones
    /\ \A w \in Workers :
         /\ req[w].pc \in {"refresh", "setBlacklist", "loggedOut"} => req[w].t \in Tokens
         /\ req[w].pc = "loggedOut" => req[w].t \in blacklist \cup unheard
    /\ \A t \in loggedOut \ unheard :
         t \in blacklist \/ (token[t].state = "EXPIRED" /\ \A w \in Workers : req[w].t # t)

\* The inductive invariant.
AuthInv == TypeOK /\ ActiveHasWallet /\ Registrations /\ Revocations

-----------------------------------------------------------------------------
(* Frames *)

\* The other requests go on as they were.
OthersSame(w) == \A v \in Workers \ {w} : req'[v] = req[v]

FramesOK ==
    /\ req \in [Workers -> Frame] /\ arrivals \in Nat
    /\ \A w \in Workers : req[w].pc # "idle" => req[w].p \in Phones

LEMMA BeginFrames ==
    ASSUME FramesOK, NEW w \in Workers, NEW pc \in Steps, NEW p \in Phones,
           NEW t \in Tokens \cup {None}, Begin(w, NewFrame(pc, p, t))
    PROVE  /\ FramesOK' /\ OthersSame(w)
           /\ req'[w].pc = pc /\ req'[w].p = p /\ req'[w].t = t
BY DEF FramesOK, Begin, NewFrame, Idle, Frame, OthersSame

LEMMA GotoFrames ==
    ASSUME FramesOK, NEW w \in Workers, NEW pc \in Steps, Goto(w, pc), req[w].pc # "idle"
    PROVE  /\ FramesOK' /\ OthersSame(w)
           /\ req'[w].pc = pc /\ req'[w].p = req[w].p /\ req'[w].t = req[w].t
BY DEF FramesOK, Goto, Frame, OthersSame

LEMMA ReturnFrames ==
    ASSUME FramesOK, NEW w \in Workers, Return(w)
    PROVE  /\ FramesOK' /\ OthersSame(w)
           /\ req'[w].pc = "idle" /\ req'[w].t = None
BY DEF FramesOK, Return, Idle, NewFrame, Frame, Steps, OthersSame

-----------------------------------------------------------------------------
(* Steps *)

AccountsTyped ==
    /\ user \in [Phones -> {"ABSENT", "INACTIVE", "ACTIVE"}]
    /\ wallets \subseteq Phones
    /\ otp \in [Phones -> {"ABSENT", "VALID", "USED", "EXPIRED"}]
    /\ inbox \subseteq Phones

SessionsTyped ==
    /\ token \in [Tokens -> [state : {"ABSENT", "LIVE", "EXPIRED"}, phone : Phones \cup {None}]]
    /\ blacklist \subseteq Tokens
    /\ loggedOut \subseteq Tokens /\ unheard \subseteq Tokens

\* A request that comes or goes on without a write.
LEMMA OnlyFrame ==
    ASSUME AuthInv, FramesOK', UNCHANGED <<accounts, sessions>>, NEW w \in Workers, OthersSame(w),
           req'[w].pc \notin {"createWallet", "createOtp", "loggedOut"},
           req'[w].pc = "activate" => otp[req'[w].p] # "ABSENT",
           req'[w].pc \in {"refresh", "setBlacklist", "loggedOut"} => req'[w].t \in Tokens,
           req'[w].t = req[w].t \/ req'[w].t \notin Tokens \/ token[req'[w].t].state = "LIVE"
    PROVE  AuthInv'
<1> USE DEF accounts, sessions, OthersSame
<1>1. TypeOK' /\ ActiveHasWallet'
    BY DEF AuthInv, TypeOK, ActiveHasWallet, FramesOK
<1>2. Registrations'
    BY DEF AuthInv, Registrations
<1>3. Revocations'
    BY DEF AuthInv, TypeOK, Revocations
<1> QED BY <1>1, <1>2, <1>3 DEF AuthInv

\* The request that inserts a user is the only one to go on with him.
LEMMA Inserted ==
    ASSUME AuthInv, NEW w \in Workers, req[w].p \in Phones, user[req[w].p] = "ABSENT",
           user' = [user EXCEPT ![req[w].p] = "INACTIVE"],
           UNCHANGED <<wallets, otp, inbox, token, blacklist, loggedOut, unheard>>,
           FramesOK', OthersSame(w), req'[w].pc = "createWallet",
           req'[w].p = req[w].p, req'[w].t = req[w].t
    PROVE  AuthInv'
<1> USE DEF OthersSame
<1>1. \A v \in Workers : req[v].pc \in {"createWallet", "createOtp"} => req[v].p # req[w].p
    BY DEF AuthInv, Registrations
<1>2. otp[req[w].p] = "ABSENT"
    BY DEF AuthInv, TypeOK, Registrations
<1>3. TypeOK' /\ ActiveHasWallet'
    BY DEF AuthInv, TypeOK, ActiveHasWallet, FramesOK
<1>4. Registrations'
    BY <1>1, <1>2 DEF AuthInv, TypeOK, Registrations, FramesOK
<1>5. Revocations'
    BY DEF AuthInv, TypeOK, Revocations
<1> QED BY <1>3, <1>4, <1>5 DEF AuthInv

\* A request that arrives.
LEMMA Arrival ==
    ASSUME AuthInv, NEW w \in Workers, NEW p \in Phones, NEW t \in Tokens \cup {None},
           NEW pc \in {"createUser", "activate", "generateTokens", "refresh", "setBlacklist"},
           Begin(w, NewFrame(pc, p, t)),
           pc = "activate" => otp[p] # "ABSENT",
           pc \in {"refresh", "setBlacklist"} => t \in Tokens,
           t = None \/ token[t].state = "LIVE"
    PROVE  AuthInv'
<1>1. FramesOK
    BY DEF AuthInv, TypeOK, FramesOK
<1>2. /\ FramesOK' /\ OthersSame(w)
      /\ req'[w].pc = pc /\ req'[w].p = p /\ req'[w].t = t
    BY <1>1, BeginFrames DEF Steps
<1>3. UNCHANGED <<accounts, sessions>>
    BY DEF Begin
<1> QED BY <1>2, <1>3, OnlyFrame, AuthAssumption

LEMMA NextAuth == AuthInv /\ [Next]_vars => AuthInv'
<1> SUFFICES ASSUME AuthInv, [Next]_vars PROVE AuthInv'
    OBVIOUS
<1>1. FramesOK /\ AccountsTyped /\ SessionsTyped
    BY DEF AuthInv, TypeOK, FramesOK, AccountsTyped, SessionsTyped
<1>2. None \notin Tokens
    BY AuthAssumption
<1>3. ASSUME NEW w \in Workers, Arrive(w) PROVE AuthInv'
    <2>1. ASSUME NEW p \in Phones, Register(w, p) PROVE AuthInv'
        BY <2>1, Arrival DEF Register
    <2>2. ASSUME NEW p \in Phones, VerifyOtp(w, p) PROVE AuthInv'
        BY <2>2, Arrival DEF VerifyOtp
    <2>3. ASSUME NEW p \in Phones, Login(w, p) PROVE AuthInv'
        BY <2>3, Arrival DEF Login
    <2>4. ASSUME NEW t \in Tokens, Refresh(w, t) PROVE AuthInv'
        <3>1. token[t].state = "LIVE" /\ token[t].phone \in Phones
            BY <2>4 DEF Refresh, AuthInv, Revocations
        <3> QED BY <2>4, <3>1, Arrival DEF Refresh
    <2>5. ASSUME NEW t \in Tokens, Logout(w, t) PROVE AuthInv'
        <3>1. token[t].state = "LIVE" /\ token[t].phone \in Phones
            BY <2>5 DEF Logout, AuthInv, Revocations
        <3> QED BY <2>5, <3>1, Arrival DEF Logout
    <2> QED BY <1>3, <2>1, <2>2, <2>3, <2>4, <2>5 DEF Arrive
<1>4. ASSUME NEW w \in Workers, Step(w) PROVE AuthInv'
    <2> USE DEF accounts, sessions, OthersSame
    <2>1. CASE CreateUser(w)
        <3>1. CASE user[req[w].p] = "ABSENT"
            <4>1. /\ user' = [user EXCEPT ![req[w].p] = "INACTIVE"] /\ req[w].p \in Phones
                  /\ UNCHANGED <<wallets, otp, inbox, token, blacklist, loggedOut, unheard>>
                BY <1>1, <2>1, <3>1 DEF CreateUser, FramesOK
            <4>2. /\ FramesOK' /\ OthersSame(w) /\ req'[w].pc = "createWallet"
                  /\ req'[w].p = req[w].p /\ req'[w].t = req[w].t
                BY <1>1, <2>1, <3>1, GotoFrames DEF CreateUser, Steps
            <4> QED BY <3>1, <4>1, <4>2, Inserted
        <3>2. CASE user[req[w].p] # "ABSENT"
            BY <1>1, <1>2, <2>1, <3>2, ReturnFrames, OnlyFrame DEF CreateUser
        <3> QED BY <3>1, <3>2
    <2>2. CASE CreateWallet(w)
        <3>1. /\ FramesOK' /\ OthersSame(w) /\ req'[w].pc = "createOtp"
              /\ req'[w].p = req[w].p /\ req'[w].t = req[w].t
            BY <1>1, <2>2, GotoFrames DEF CreateWallet, Steps
        <3>2. wallets' = wallets \cup {req[w].p} /\ req[w].p \in Phones /\ req[w].pc = "createWallet"
              /\ UNCHANGED <<user, otp, inbox, token, blacklist, loggedOut, unheard>>
            BY <1>1, <2>2 DEF CreateWallet, FramesOK
        <3>3. TypeOK' /\ ActiveHasWallet' /\ Registrations'
            BY <1>1, <3>1, <3>2 DEF AuthInv, TypeOK, ActiveHasWallet, Registrations, FramesOK
        <3>4. Revocations'
            BY <3>1, <3>2 DEF AuthInv, Revocations
        <3> QED BY <3>3, <3>4 DEF AuthInv
    <2>3. CASE CreateOtp(w)
        <3>1. /\ FramesOK' /\ OthersSame(w) /\ req'[w].pc = "sendSms"
              /\ req'[w].p = req[w].p /\ req'[w].t = req[w].t
            BY <1>1, <2>3, GotoFrames DEF CreateOtp, Steps
        <3>2. otp' = [otp EXCEPT ![req[w].p] = "VALID"] /\ req[w].p \in Phones /\ req[w].pc = "createOtp"
              /\ UNCHANGED <<user, wallets, inbox, token, blacklist, loggedOut, unheard>>
            BY <1>1, <2>3 DEF CreateOtp, FramesOK
        <3>3. TypeOK' /\ ActiveHasWallet' /\ Registrations'
            BY <1>1, <3>1, <3>2 DEF AuthInv, TypeOK, ActiveHasWallet, Registrations, FramesOK
        <3>4. Revocations'
            BY <3>1, <3>2 DEF AuthInv, Revocations
        <3> QED BY <3>3, <3>4 DEF AuthInv
    <2>4. CASE SendSms(w)
        <3>1. FramesOK' /\ OthersSame(w) /\ req'[w].pc = "idle" /\ req'[w].t = None
            BY <1>1, <2>4, ReturnFrames DEF SendSms
        <3>2. inbox' = inbox \cup {req[w].p} /\ req[w].p \in Phones
              /\ UNCHANGED <<user, wallets, otp, token, blacklist, loggedOut, unheard>>
            BY <1>1, <2>4 DEF SendSms, FramesOK
        <3> QED BY <1>1, <1>2, <3>1, <3>2
                DEF AuthInv, TypeOK, ActiveHasWallet, Registrations, Revocations, FramesOK
    <2>5. CASE Activate(w)
        <3>1. /\ FramesOK' /\ OthersSame(w) /\ req'[w].pc = "generateTokens"
              /\ req'[w].p = req[w].p /\ req'[w].t = req[w].t
            BY <1>1, <2>5, GotoFrames DEF Activate, Steps
        <3>2. /\ otp' = [otp EXCEPT ![req[w].p] = "USED"]
              /\ user' = [user EXCEPT ![req[w].p] = "ACTIVE"]
              /\ req[w].p \in Phones /\ req[w].pc = "activate"
              /\ UNCHANGED <<wallets, inbox, token, blacklist, loggedOut, unheard>>
            BY <1>1, <2>5 DEF Activate, FramesOK
        <3>3. TypeOK' /\ ActiveHasWallet' /\ Registrations'
            BY <1>1, <3>1, <3>2 DEF AuthInv, TypeOK, ActiveHasWallet, Registrations, FramesOK
        <3>4. Revocations'
            BY <3>1, <3>2 DEF AuthInv, Revocations
        <3> QED BY <3>3, <3>4 DEF AuthInv
    <2>6. CASE GenerateTokens(w)
        <3>1. FramesOK' /\ OthersSame(w) /\ req'[w].pc = "idle" /\ req'[w].t = None
            BY <1>1, <2>6, ReturnFrames DEF GenerateTokens
        <3>2. PICK t \in Tokens : /\ token[t].state = "ABSENT"
                                  /\ token' = [token EXCEPT ![t] = [state |-> "LIVE", phone |-> req[w].p]]
            BY <2>6 DEF GenerateTokens
        <3>3. req[w].p \in Phones /\ UNCHANGED <<accounts, blacklist, loggedOut, unheard>>
            BY <1>1, <2>6 DEF GenerateTokens, FramesOK
        <3>4. /\ token'[t] = [state |-> "LIVE", phone |-> req[w].p]
              /\ \A u \in Tokens \ {t} : token'[u] = token[u]
            BY <1>1, <3>2 DEF SessionsTyped
        <3>5. SessionsTyped'
            BY <1>1, <3>2, <3>3 DEF SessionsTyped
        <3>6. AccountsTyped' /\ ActiveHasWallet' /\ Registrations'
            BY <1>1, <3>1, <3>3 DEF AuthInv, AccountsTyped, ActiveHasWallet, Registrations
        <3>7. Revocations'
            BY <1>1, <1>2, <3>1, <3>2, <3>3, <3>4 DEF AuthInv, Revocations, SessionsTyped
        <3> QED BY <3>1, <3>5, <3>6, <3>7 DEF AuthInv, TypeOK, FramesOK, AccountsTyped, SessionsTyped
    <2>7. CASE TokensExhausted(w)
        BY <1>1, <1>2, <2>7, ReturnFrames, OnlyFrame DEF TokensExhausted
    <2>8. CASE RefreshCheck(w)
        BY <1>1, <1>2, <2>8, ReturnFrames, GotoFrames, OnlyFrame DEF RefreshCheck, Steps
    <2>9. CASE SetBlacklist(w)
        <3>1. /\ FramesOK' /\ OthersSame(w) /\ req'[w].pc = "loggedOut"
              /\ req'[w].p = req[w].p /\ req'[w].t = req[w].t
            BY <1>1, <2>9, GotoFrames DEF SetBlacklist, Steps
        <3>2. blacklist' = blacklist \cup {req[w].t} /\ unheard' = unheard \ {req[w].t}
              /\ req[w].t \in Tokens /\ UNCHANGED <<accounts, token, loggedOut>>
            BY <2>9 DEF SetBlacklist, AuthInv, Revocations
        <3> QED BY <1>1, <3>1, <3>2
                DEF AuthInv, TypeOK, ActiveHasWallet, Registrations, Revocations, FramesOK
    <2>10. CASE AnswerLogout(w)
        <3>1. FramesOK' /\ OthersSame(w) /\ req'[w].pc = "idle" /\ req'[w].t = None
            BY <1>1, <2>10, ReturnFrames DEF AnswerLogout
        <3>2. loggedOut' = loggedOut \cup {req[w].t} /\ req[w].t \in (blacklist \cup unheard) \cap Tokens
              /\ UNCHANGED <<accounts, token, blacklist, unheard>>
            BY <2>10 DEF AnswerLogout, AuthInv, Revocations
        <3> QED BY <1>1, <1>2, <3>1, <3>2
                DEF AuthInv, TypeOK, ActiveHasWallet, Registrations, Revocations, FramesOK
    <2>11. CASE SetBlacklistFails(w)
        <3>1. /\ FramesOK' /\ OthersSame(w) /\ req'[w].pc = "loggedOut"
              /\ req'[w].p = req[w].p /\ req'[w].t = req[w].t
            BY <1>1, <2>11, GotoFrames DEF SetBlacklistFails, Steps
        <3>2. unheard' = unheard \cup ({req[w].t} \ blacklist) /\ req[w].t \in Tokens
              /\ UNCHANGED <<accounts, token, blacklist, loggedOut>>
            BY <2>11 DEF SetBlacklistFails, AuthInv, Revocations
        <3> QED BY <1>1, <3>1, <3>2
                DEF AuthInv, TypeOK, ActiveHasWallet, Registrations, Revocations, FramesOK
    <2> QED BY <1>4, <2>1, <2>2, <2>3, <2>4, <2>5, <2>6, <2>7, <2>8, <2>9, <2>10, <2>11
            DEF Step
<1>5. ASSUME NEW w \in Workers, Abort(w) PROVE AuthInv'
    BY <1>1, <1>2, <1>5, ReturnFrames, OnlyFrame DEF Abort
<1>6. CASE Expire
    <2> USE DEF accounts, sessions, AuthInv, TypeOK, ActiveHasWallet, Registrations, Revocations
    <2>1. ASSUME NEW p \in Phones, ExpireOtp(p) PROVE AuthInv'
        BY <1>1, <2>1 DEF ExpireOtp
    <2>2. ASSUME NEW t \in Tokens, ExpireToken(t) PROVE AuthInv'
        BY <1>1, <2>2 DEF ExpireToken
    <2>3. ASSUME NEW t \in Tokens, ExpireBlacklist(t) PROVE AuthInv'
        BY <1>1, <2>3 DEF ExpireBlacklist
    <2> QED BY <1>6, <2>1, <2>2, <2>3 DEF Expire
<1>7. CASE UNCHANGED vars
    BY <1>7 DEF vars, accounts, sessions, AuthInv, TypeOK, ActiveHasWallet, Registrations, Revocations
<1> QED BY <1>3, <1>4, <1>5, <1>6, <1>7 DEF Next

\* Only the last check of a refresh moves it on, and it reads the key.
LEMMA RefreshStep ==
    ASSUME FramesOK, NEW v \in Workers, Arrive(v) \/ Step(v) \/ Abort(v),
           NEW w \in Workers, req[w].pc = "refresh", req'[w].pc = "generateTokens"
    PROVE  req[w].t \notin blacklist
<1>1. CASE Arrive(v)
    BY <1>1 DEF Arrive, Register, VerifyOtp, Login, Refresh, Logout, Begin, FramesOK, Idle, NewFrame
<1>2. CASE Abort(v)
    BY <1>2 DEF Abort, Return, FramesOK, Idle, NewFrame
<1>3. CASE Step(v)
    <2>1. v = w
        BY <1>3 DEF Step, CreateUser, CreateWallet, CreateOtp, SendSms, Activate, GenerateTokens,
           TokensExhausted, RefreshCheck, SetBlacklist, SetBlacklistFails, AnswerLogout, Goto, Return, FramesOK
    <2>2. RefreshCheck(w)
        BY <1>3, <2>1 DEF Step, CreateUser, CreateWallet, CreateOtp, SendSms, Activate, GenerateTokens,
           TokensExhausted, SetBlacklist, SetBlacklistFails, AnswerLogout
    <2> QED BY <2>2 DEF RefreshCheck, Return, FramesOK, Idle, NewFrame
<1> QED BY <1>1, <1>2, <1>3

LEMMA InitAuth == Init => AuthInv
BY DEF Init, AuthInv, TypeOK, ActiveHasWallet, Registrations, Revocations, Idle, NewFrame, Frame, Steps

THEOREM AuthInvariant == Spec => []AuthInv
BY InitAuth, NextAuth, PTL DEF Spec

\* The tables, the tokens and the frames of every request hold values of their types.
THEOREM AuthTyped == Spec => []TypeOK
<1>1. AuthInv => TypeOK
    BY DEF AuthInv
<1> QED BY <1>1, AuthInvariant, PTL

\* However registrations race or stop half-way, an active user has a wallet and no
\* code that is still worth anything.
THEOREM ActiveUsersHaveWallets == Spec => []ActiveHasWallet
<1>1. AuthInv => ActiveHasWallet
    BY DEF AuthInv
<1> QED BY <1>1, AuthInvariant, PTL

\* No refresh gets past its last check with a token whose logout has been answered, if
\* Redis took its key.
THEOREM RevokedTokensRefused == Spec => RevokedNotRefreshed
<1> DEFINE Refused(w) == req[w].pc = "refresh" /\ req'[w].pc = "generateTokens"
                             => req[w].t \notin loggedOut \ unheard
<1>1. ASSUME AuthInv, [Next]_vars, NEW w \in Workers PROVE Refused(w)
    <2>1. FramesOK
        BY <1>1 DEF AuthInv, TypeOK, FramesOK
    <2>2. ASSUME NEW v \in Workers, Arrive(v) \/ Step(v) \/ Abort(v) PROVE Refused(w)
        BY <1>1, <2>1, <2>2, RefreshStep DEF AuthInv, Revocations
    <2>3. CASE Expire \/ UNCHANGED vars
        BY <2>3 DEF Expire, ExpireOtp, ExpireToken, ExpireBlacklist, vars
    <2> QED BY <1>1, <2>2, <2>3 DEF Next
<1>2. AuthInv /\ [Next]_vars => [\A w \in Workers : Refused(w)]_vars
    BY <1>1
<1> QED BY <1>2, AuthInvariant, PTL DEF Spec, RevokedNotRefreshed

=============================================================================
