---------------------------- MODULE AuthService ----------------------------
(***************************************************************************)
(* AuthService: an account is registered in three writes, activated by the *)
(* code sent by SMS, and then holds refresh tokens, which are renewed and  *)
(* revoked.  The tokens are not stored: what a token says is signed, what  *)
(* is known of its revocation is a key in Redis.  PINs and codes are the   *)
(* right ones: a call refused for a wrong one changes nothing.             *)
(***************************************************************************)
EXTENDS Integers, FiniteSets

CONSTANTS
    Phones,         \* phone numbers, unique among users
    Tokens,         \* jti of the refresh tokens that are ever signed (bound)
    Workers,        \* slots for requests in flight
    MaxRequests,    \* bound: requests that ever arrive
    Faulty,         \* whether requests may die between two awaits
    None

ASSUME AuthAssumption ==
    /\ MaxRequests \in Nat
    /\ Faulty \in BOOLEAN
    /\ None \notin Phones \cup Tokens

VARIABLES
    user,       \* table users: INACTIVE or ACTIVE (isActive)
    wallets,    \* table wallets: the phones whose user has one
    otp,        \* table otp_codes: the code of a user
    inbox,      \* phones that received their code
    token,      \* refresh tokens signed: whose, and whether still within 7 days
    blacklist,  \* Redis: the keys refresh_token:blacklist:jti
    loggedOut,  \* history: tokens a logout has answered for
    unheard,    \* history: those among them whose key Redis failed to take
    req,        \* requests in flight
    arrivals    \* requests that have arrived

accounts == <<user, wallets, otp, inbox>>

sessions == <<token, blacklist, loggedOut, unheard>>

vars == <<accounts, sessions, req, arrivals>>

Steps == {"idle", "createUser", "createWallet", "createOtp", "sendSms",
          "activate", "generateTokens", "refresh", "setBlacklist", "loggedOut"}

Frame == [pc : Steps, p : Phones \cup {None}, t : Tokens \cup {None}]

NewFrame(pc, p, t) == [pc |-> pc, p |-> p, t |-> t]

Idle == NewFrame("idle", None, None)

Init ==
    /\ user = [p \in Phones |-> "ABSENT"]
    /\ wallets = {}
    /\ otp = [p \in Phones |-> "ABSENT"]
    /\ inbox = {}
    /\ token = [t \in Tokens |-> [state |-> "ABSENT", phone |-> None]]
    /\ blacklist = {}
    /\ loggedOut = {}
    /\ unheard = {}
    /\ req = [w \in Workers |-> Idle]
    /\ arrivals = 0

Begin(w, f) ==
    /\ req[w] = Idle
    /\ arrivals < MaxRequests
    /\ arrivals' = arrivals + 1
    /\ req' = [req EXCEPT ![w] = f]
    /\ UNCHANGED <<accounts, sessions>>

Goto(w, pc) ==
    /\ req' = [req EXCEPT ![w].pc = pc]
    /\ UNCHANGED arrivals

Return(w) ==
    /\ req' = [req EXCEPT ![w] = Idle]
    /\ UNCHANGED arrivals

\* A request dies at an await; what it wrote stays.
Abort(w) ==
    /\ Faulty
    /\ req[w] # Idle
    /\ Return(w)
    /\ UNCHANGED <<accounts, sessions>>

-----------------------------------------------------------------------------
(* register *)

\* No user has the phone yet; the PIN is hashed.
Register(w, p) == user[p] = "ABSENT" /\ Begin(w, NewFrame("createUser", p, None))

\* Mutated form of CreateUser: the wallet comes after the code.
CreateUserOtpFirst(w) ==
    /\ req[w].pc = "createUser"
    /\ IF user[req[w].p] = "ABSENT"
       THEN user' = [user EXCEPT ![req[w].p] = "INACTIVE"] /\ Goto(w, "createOtp")
       ELSE Return(w) /\ UNCHANGED user
    /\ UNCHANGED <<wallets, otp, inbox, sessions>>

\* The user is inserted; phone is unique, so that the second of two inserts throws.
CreateUser(w) ==
    /\ req[w].pc = "createUser"
    /\ IF user[req[w].p] = "ABSENT"
       THEN user' = [user EXCEPT ![req[w].p] = "INACTIVE"] /\ Goto(w, "createWallet")
       ELSE Return(w) /\ UNCHANGED user
    /\ UNCHANGED <<wallets, otp, inbox, sessions>>

CreateWallet(w) ==
    /\ req[w].pc = "createWallet"
    /\ wallets' = wallets \cup {req[w].p}
    /\ Goto(w, "createOtp")
    /\ UNCHANGED <<user, otp, inbox, sessions>>

CreateOtp(w) ==
    /\ req[w].pc = "createOtp"
    /\ otp' = [otp EXCEPT ![req[w].p] = "VALID"]
    /\ Goto(w, "sendSms")
    /\ UNCHANGED <<user, wallets, inbox, sessions>>

SendSms(w) ==
    /\ req[w].pc = "sendSms"
    /\ inbox' = inbox \cup {req[w].p}
    /\ Return(w)
    /\ UNCHANGED <<user, wallets, otp, sessions>>

\* The code is worth 5 minutes.
ExpireOtp(p) ==
    /\ otp[p] = "VALID"
    /\ otp' = [otp EXCEPT ![p] = "EXPIRED"]
    /\ UNCHANGED <<user, wallets, inbox, sessions, req, arrivals>>

-----------------------------------------------------------------------------
(* verifyOtp and login *)

\* verifyOtp finds a code that is neither used nor too old ...
VerifyOtp(w, p) ==
    /\ p \in inbox
    /\ otp[p] = "VALID"
    /\ Begin(w, NewFrame("activate", p, None))

\* ... uses it and activates the user in one transaction, and signs tokens.
Activate(w) ==
    /\ req[w].pc = "activate"
    /\ otp' = [otp EXCEPT ![req[w].p] = "USED"]
    /\ user' = [user EXCEPT ![req[w].p] = "ACTIVE"]
    /\ Goto(w, "generateTokens")
    /\ UNCHANGED <<wallets, inbox, sessions>>

\* login reads the user, who must be active.
Login(w, p) == user[p] = "ACTIVE" /\ Begin(w, NewFrame("generateTokens", p, None))

\* generateTokens signs a refresh token under a new jti.
GenerateTokens(w) ==
    /\ req[w].pc = "generateTokens"
    /\ \E t \in Tokens :
         /\ token[t].state = "ABSENT"
         /\ token' = [token EXCEPT ![t] = [state |-> "LIVE", phone |-> req[w].p]]
    /\ Return(w)
    /\ UNCHANGED <<accounts, blacklist, loggedOut, unheard>>

\* Bound: the token that would be signed has no jti left.
TokensExhausted(w) ==
    /\ req[w].pc = "generateTokens"
    /\ \A t \in Tokens : token[t].state # "ABSENT"
    /\ Return(w)
    /\ UNCHANGED <<accounts, sessions>>

-----------------------------------------------------------------------------
(* refresh and logout *)

\* Mutated form of Refresh: the strategy does not pass sub on.
RefreshAnonymous(w, t) ==
    /\ token[t].state = "LIVE"
    /\ t \notin blacklist
    /\ Begin(w, NewFrame("refresh", None, t))

\* JwtRefreshStrategy: the token is signed, young enough and not revoked ...
Refresh(w, t) ==
    /\ token[t].state = "LIVE"
    /\ t \notin blacklist
    /\ Begin(w, NewFrame("refresh", token[t].phone, t))

\* Mutated form of RefreshCheck: refresh does not look at the blacklist.
RefreshCheckTrusting(w) ==
    /\ req[w].pc = "refresh"
    /\ IF user[req[w].p] = "ACTIVE"
       THEN Goto(w, "generateTokens") ELSE Return(w)
    /\ UNCHANGED <<accounts, sessions>>

\* ... and refresh looks again, and at the user.  The old token stays usable.
RefreshCheck(w) ==
    /\ req[w].pc = "refresh"
    /\ IF req[w].t \notin blacklist /\ user[req[w].p] = "ACTIVE"
       THEN Goto(w, "generateTokens") ELSE Return(w)
    /\ UNCHANGED <<accounts, sessions>>

\* logout of an active user who hands in a refresh token of his own.
Logout(w, t) ==
    /\ token[t].state = "LIVE"
    /\ user[token[t].phone] = "ACTIVE"
    /\ Begin(w, NewFrame("setBlacklist", token[t].phone, t))

\* The token is revoked ...
SetBlacklist(w) ==
    /\ req[w].pc = "setBlacklist"
    /\ blacklist' = blacklist \cup {req[w].t}
    /\ unheard' = unheard \ {req[w].t}
    /\ Goto(w, "loggedOut")
    /\ UNCHANGED <<accounts, token, loggedOut>>

\* ... or Redis fails, and the error is swallowed like that of an invalid token ...
SetBlacklistFails(w) ==
    /\ req[w].pc = "setBlacklist"
    /\ unheard' = unheard \cup ({req[w].t} \ blacklist)
    /\ Goto(w, "loggedOut")
    /\ UNCHANGED <<accounts, token, blacklist, loggedOut>>

\* ... and the answer is the same: success.
AnswerLogout(w) ==
    /\ req[w].pc = "loggedOut"
    /\ loggedOut' = loggedOut \cup {req[w].t}
    /\ Return(w)
    /\ UNCHANGED <<accounts, token, blacklist, unheard>>

\* A token is worth 7 days ...
ExpireToken(t) ==
    /\ token[t].state = "LIVE"
    /\ token' = [token EXCEPT ![t].state = "EXPIRED"]
    /\ UNCHANGED <<accounts, blacklist, loggedOut, unheard, req, arrivals>>

\* Mutated form of ExpireBlacklist: the key does not live as long as the token.
ExpireBlacklistEarly(t) ==
    /\ t \in blacklist
    /\ blacklist' = blacklist \ {t}
    /\ UNCHANGED <<accounts, token, loggedOut, unheard, req, arrivals>>

\* ... and its key in Redis lives for 7 days from its revocation, which is longer,
\* by far longer than a request takes.
ExpireBlacklist(t) ==
    /\ t \in blacklist
    /\ token[t].state = "EXPIRED"
    /\ \A w \in Workers : req[w].t # t
    /\ blacklist' = blacklist \ {t}
    /\ UNCHANGED <<accounts, token, loggedOut, unheard, req, arrivals>>

-----------------------------------------------------------------------------

Arrive(w) ==
    \/ \E p \in Phones : Register(w, p) \/ VerifyOtp(w, p) \/ Login(w, p)
    \/ \E t \in Tokens : Refresh(w, t) \/ Logout(w, t)

Step(w) ==
    \/ CreateUser(w) \/ CreateWallet(w) \/ CreateOtp(w) \/ SendSms(w)
    \/ Activate(w) \/ GenerateTokens(w) \/ TokensExhausted(w)
    \/ RefreshCheck(w) \/ SetBlacklist(w) \/ SetBlacklistFails(w) \/ AnswerLogout(w)

Expire ==
    \/ \E p \in Phones : ExpireOtp(p)
    \/ \E t \in Tokens : ExpireToken(t) \/ ExpireBlacklist(t)

Next == Expire \/ \E w \in Workers : Arrive(w) \/ Step(w) \/ Abort(w)

Spec == Init /\ [][Next]_vars

-----------------------------------------------------------------------------

\* The tables, the tokens and the frames hold values of their types; a request
\* past its first step knows its user.
TypeOK ==
    /\ user \in [Phones -> {"ABSENT", "INACTIVE", "ACTIVE"}]
    /\ wallets \subseteq Phones
    /\ otp \in [Phones -> {"ABSENT", "VALID", "USED", "EXPIRED"}]
    /\ inbox \subseteq Phones
    /\ token \in [Tokens -> [state : {"ABSENT", "LIVE", "EXPIRED"}, phone : Phones \cup {None}]]
    /\ blacklist \subseteq Tokens
    /\ loggedOut \subseteq Tokens /\ unheard \subseteq Tokens
    /\ req \in [Workers -> Frame]
    /\ arrivals \in Nat
    /\ \A w \in Workers : req[w].pc # "idle" => req[w].p \in Phones

\* An active user has a wallet, and no code that could activate him again:
\* a registration that stops half-way, or races another for the same phone,
\* never leaves an active user whom recharge and payWithWallet refuse.
ActiveHasWallet ==
    \A p \in Phones : user[p] = "ACTIVE" => p \in wallets /\ otp[p] = "USED"

\* Once logout has answered, the token is refused for good, provided that Redis took
\* its key: no refresh gets past its last check, be it one that arrived before, and
\* whatever keys Redis has dropped since.  Without the proviso it is not so: logout
\* answers the same success when Redis failed, and the token goes on being renewed.
RevokedNotRefreshed ==
    [][\A w \in Workers :
          req[w].pc = "refresh" /\ req'[w].pc = "generateTokens"
              => req[w].t \notin loggedOut \ unheard]_vars

=============================================================================
