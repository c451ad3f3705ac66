------------------------------ MODULE Accounts ------------------------------
(* Accounts (auth.service, users.service and the accounts part of           *)
(* admin.service): registration, the two mailed links, referral codes,      *)
(* removal and return.  A referral code is an address or another word.      *)
EXTENDS Service

CONSTANTS
    Users, Addresses, Words,    \* ids; emails; referral codes of their owners' choice
    MaxTokens,                  \* bound on the reset links
    TrialDays

ASSUME AccountsAssumption == Users \subseteq Nat /\ MaxTokens \in Nat /\ TrialDays \in Nat

VARIABLES
    users,          \* User, with the status of its profile
    links,          \* users who hold a verification link that has not expired
    issued,         \* reset links mailed so far: a link is its number
    resets,         \* history: how many passwords each reset link set
    trials,         \* history: trials granted, by user
    cut             \* history: verifications that ended between their two writes

accountVars == <<users, links, issued, resets, trials, cut>>

NoCode == "none"
Kinds == {"client", "professional", "company", "admin"}
UserRecord ==
    [email : Addresses, kind : Kinds, deleted : BOOLEAN, verified : BOOLEAN, byLink : BOOLEAN,
     code : Addresses \cup Words \cup {NoCode}, token : 0 .. MaxTokens, fresh : BOOLEAN,
     onboarding : BOOLEAN]

AccountsTypeOK ==
    /\ DOMAIN users \subseteq Users /\ \A u \in DOMAIN users : users[u] \in UserRecord
    /\ links \subseteq DOMAIN users /\ cut \subseteq DOMAIN users
    /\ issued \in 0 .. MaxTokens
    /\ resets \in [1 .. MaxTokens -> Nat] /\ trials \in [Users -> Nat]

AccountsInit ==
    /\ users = [u \in {} |-> 0] /\ links = {} /\ cut = {} /\ issued = 0
    /\ resets = [t \in 1 .. MaxTokens |-> 0] /\ trials = [u \in Users |-> 0]

(* withoutDeleted *)
Live == {u \in DOMAIN users : ~users[u].deleted}

(* What the unique indexes on the email and the referral code refuse        *)
Holds(email) == {u \in DOMAIN users : users[u].email = email}
Coded(code)  == {u \in DOMAIN users : users[u].code = code}

Sets(u, fields) == users' = [users EXCEPT ![u] = Patched(@, fields)]

-----------------------------------------------------------------------------
(* Registration: each handler looks for the address among the accounts it   *)
(* can see, and the index has the last word.                                *)
Looks(h, op, email, among) ==
    /\ Takes(h, [op |-> op, email |-> email])
    /\ Holds(email) \cap among = {}
    /\ UNCHANGED accountVars

Inserts(h, op, kind, verified, onboarding) ==
    /\ Ends(h, {op})
    /\ LET email == call[h].email
       IN IF Holds(email) # {} THEN UNCHANGED <<users, links>>
          ELSE \E u \in Fresh(Users, DOMAIN users) :
                 /\ users' = [v \in DOMAIN users \cup {u} |->
                                IF v # u THEN users[v]
                                ELSE [email |-> email, kind |-> kind, deleted |-> FALSE, verified |-> verified,
                                      byLink |-> FALSE, code |-> NoCode, token |-> 0, fresh |-> FALSE,
                                      onboarding |-> onboarding]]
                 \* the mail with the link goes to those who registered themselves
                 /\ links' = IF op \in {"adminRegister", "createAdminUser"} THEN links ELSE links \cup {u}
    /\ UNCHANGED <<issued, resets, trials, cut>>

Register(h) ==
    \/ \E email \in Addresses : Looks(h, "register", email, Live)
    \/ Inserts(h, "register", "client", FALSE, FALSE)

ProfessionalRegister(h) ==
    \/ \E email \in Addresses : Looks(h, "professionalRegister", email, DOMAIN users)
    \/ Inserts(h, "professionalRegister", "professional", FALSE, TRUE)

CompanyRegister(h) ==
    \/ \E email \in Addresses : Looks(h, "companyRegister", email, DOMAIN users)
    \/ Inserts(h, "companyRegister", "company", FALSE, FALSE)

(* The admin says whether the address is verified and how far the profile is. *)
AdminRegistersProfessional(h) ==
    \/ \E email \in Addresses : Looks(h, "adminRegister", email, Live)
    \/ \E verified, onboarding \in BOOLEAN : Inserts(h, "adminRegister", "professional", verified, onboarding)

CreateAdminUser(h) ==
    \/ \E email \in Addresses : Looks(h, "createAdminUser", email, Live)
    \/ \E kind \in {"client", "admin"} : Inserts(h, "createAdminUser", kind, TRUE, FALSE)

(* resendVerification, resendVerificationByUserId *)
ResendVerification(u) ==
    /\ Offered("resend") /\ u \in Live /\ ~users[u].verified
    /\ links' = links \cup {u}
    /\ UNCHANGED <<users, issued, resets, trials, cut, serviceVars>>

LinkExpires(u) ==
    /\ Offered("linkExpires") /\ u \in links /\ links' = links \ {u}
    /\ UNCHANGED <<users, issued, resets, trials, cut, serviceVars>>

-----------------------------------------------------------------------------
(* verifyEmail: the user's row, the profile's, the trial                    *)

(* A verification that trusts the link alone *)
VerifyReadsLink(h, u) ==
    /\ Takes(h, [op |-> "verifyEmail", at |-> "user", id |-> u,
                 code |-> IF u \in Live THEN users[u].code ELSE NoCode,
                 email |-> IF u \in Live THEN users[u].email ELSE NoCode])
    /\ u \in links \cap Live /\ UNCHANGED accountVars

VerifyReads(h, u) ==
    /\ u \in links \cap Live /\ ~users[u].verified
    /\ Takes(h, [op |-> "verifyEmail", at |-> "user", id |-> u,
                 code |-> users[u].code, email |-> users[u].email])
    /\ UNCHANGED accountVars

(* The first referral code is the address, unless somebody else's is.       *)
VerifyMarks(h) ==
    /\ call[h].op = "verifyEmail" /\ call[h].at = "user"
    /\ LET u == call[h].id
           code == IF call[h].code = NoCode THEN call[h].email ELSE users[u].code
       IN IF u \in Live /\ Coded(code) \subseteq {u}
          THEN /\ Sets(u, [verified |-> TRUE, byLink |-> TRUE, code |-> code])
               /\ GoesOn(h, "verifyEmail", [call[h] EXCEPT !.at = "profile"])
          ELSE UNCHANGED users /\ Ends(h, {"verifyEmail"})
    /\ UNCHANGED <<links, issued, resets, trials, cut>>

VerifyProfile(h) ==
    /\ call[h].op = "verifyEmail" /\ call[h].at = "profile"
    /\ LET u == call[h].id
       IN IF u \in Live /\ users[u].onboarding /\ TrialDays > 0
          THEN GoesOn(h, "verifyEmail", [call[h] EXCEPT !.at = "trial"]) /\ UNCHANGED cut
          ELSE Ends(h, {"verifyEmail"}) /\ cut' = cut \cup ({u} \ Live)
    /\ UNCHANGED <<users, links, issued, resets, trials>>

VerifyGrants(h) ==
    /\ call[h].op = "verifyEmail" /\ call[h].at = "trial" /\ Ends(h, {"verifyEmail"})
    /\ LET u == call[h].id
       IN IF u \in Live THEN trials' = [trials EXCEPT ![u] = @ + 1] /\ UNCHANGED cut
          ELSE cut' = cut \cup {u} /\ UNCHANGED trials
    /\ UNCHANGED <<users, links, issued, resets>>

(* The profile leaves onboarding. *)
ProfileMovesOn(u) ==
    /\ Offered("profile") /\ u \in Live /\ users[u].onboarding
    /\ Sets(u, [onboarding |-> FALSE])
    /\ UNCHANGED <<links, issued, resets, trials, cut, serviceVars>>

-----------------------------------------------------------------------------
(* forgotPassword: a new link takes the place of the former one *)
ForgotPassword(u) ==
    /\ Offered("forgotPassword") /\ u \in Live /\ issued < MaxTokens
    /\ issued' = issued + 1
    /\ Sets(u, [token |-> issued + 1, fresh |-> TRUE])
    /\ UNCHANGED <<links, resets, trials, cut, serviceVars>>

TokenExpires(u) ==
    /\ Offered("forgotPassword") /\ u \in DOMAIN users /\ users[u].fresh
    /\ Sets(u, [fresh |-> FALSE])
    /\ UNCHANGED <<links, issued, resets, trials, cut, serviceVars>>

ResetReads(h, u, token) ==
    /\ u \in Live /\ users[u].fresh /\ users[u].token = token
    /\ Takes(h, [op |-> "resetPassword", id |-> u, token |-> token])
    /\ UNCHANGED accountVars

(* A reset that leaves the link in its place *)
ResetKeepsToken(h) ==
    /\ Ends(h, {"resetPassword"})
    /\ LET u == call[h].id
       IN IF u \in Live
          THEN Sets(u, [verified |-> TRUE]) /\ resets' = [resets EXCEPT ![call[h].token] = @ + 1]
          ELSE UNCHANGED <<users, resets>>
    /\ UNCHANGED <<links, issued, trials, cut>>

(* The newest link is spent, whichever it is. *)
ResetWrites(h) ==
    /\ Ends(h, {"resetPassword"})
    /\ LET u == call[h].id
       IN IF u \in Live
          THEN /\ Sets(u, [token |-> 0, fresh |-> FALSE, verified |-> TRUE])
               /\ resets' = [resets EXCEPT ![call[h].token] = @ + 1]
          ELSE UNCHANGED <<users, resets>>
    /\ UNCHANGED <<links, issued, trials, cut>>

-----------------------------------------------------------------------------
(* updateMyReferralCode; an admin's setUserReferralCode for anybody *)
CodeChecks(h, u, code, byAdmin) ==
    /\ u \in (IF byAdmin THEN DOMAIN users ELSE Live) /\ Coded(code) \subseteq {u}
    /\ Takes(h, [op |-> "referralCode", id |-> u, code |-> code, byAdmin |-> byAdmin])
    /\ UNCHANGED accountVars

CodeWrites(h) ==
    /\ Ends(h, {"referralCode"})
    /\ LET u == call[h].id
       IN IF Coded(call[h].code) \subseteq {u} /\ (call[h].byAdmin \/ u \in Live)
          THEN Sets(u, [code |-> call[h].code]) ELSE UNCHANGED users
    /\ UNCHANGED <<links, issued, resets, trials, cut>>

(* updateAdminUser: another account's email and role, by an admin *)
AdminUpdateChecks(h, by, u, email, kind) ==
    /\ {by, u} \subseteq Live /\ users[by].kind = "admin"
    /\ by # u                                       \* assertCanMutateUser
    /\ Holds(email) \cap Live \subseteq {u}
    /\ Takes(h, [op |-> "updateAdminUser", id |-> u, email |-> email, kind |-> kind])
    /\ UNCHANGED accountVars

AdminUpdateWrites(h) ==
    /\ Ends(h, {"updateAdminUser"})
    /\ LET u == call[h].id
       IN IF u \in Live /\ Holds(call[h].email) \subseteq {u}
          THEN Sets(u, [email |-> call[h].email, kind |-> call[h].kind]) ELSE UNCHANGED users
    /\ UNCHANGED <<links, issued, resets, trials, cut>>

(* softDeleteUser, softDeleteAdminUser: the account and its profile *)
SoftDelete(u) ==
    /\ Offered("softDelete") /\ u \in Live
    /\ Sets(u, [deleted |-> TRUE])
    /\ UNCHANGED <<links, issued, resets, trials, cut, serviceVars>>

RestoreSoftDeletedUser(u) ==
    /\ Offered("restore") /\ u \in DOMAIN users \ Live
    /\ Sets(u, [deleted |-> FALSE])
    /\ UNCHANGED <<links, issued, resets, trials, cut, serviceVars>>

(* The server stops. *)
AccountsStop ==
    /\ Offered("stopAuth") /\ \E h \in Handlers : call[h] # Idle
    /\ call' = [h \in Handlers |-> Idle]
    /\ cut' = cut \cup {call[h].id : h \in {k \in Handlers : call[k].op = "verifyEmail"}}
    /\ UNCHANGED <<users, links, issued, resets, trials, scenario>>

AccountsNext ==
    \/ \E u \in Users :
         \/ ResendVerification(u) \/ LinkExpires(u) \/ ProfileMovesOn(u)
         \/ ForgotPassword(u) \/ TokenExpires(u) \/ SoftDelete(u) \/ RestoreSoftDeletedUser(u)
    \/ \E h \in Handlers :
         \/ Register(h) \/ ProfessionalRegister(h) \/ CompanyRegister(h)
         \/ AdminRegistersProfessional(h) \/ CreateAdminUser(h)
         \/ VerifyMarks(h) \/ VerifyProfile(h) \/ VerifyGrants(h)
         \/ ResetWrites(h) \/ CodeWrites(h) \/ AdminUpdateWrites(h)
         \/ \E u \in Users : VerifyReads(h, u) \/ \E t \in 1 .. issued : ResetReads(h, u, t)
         \/ \E u \in DOMAIN users, code \in Addresses \cup Words, byAdmin \in BOOLEAN : CodeChecks(h, u, code, byAdmin)
         \/ \E by, u \in Live, email \in Addresses, kind \in {"client", "admin"} :
              AdminUpdateChecks(h, by, u, email, kind)
    \/ AccountsStop

AccountsSpec == AccountsInit /\ ServiceInit /\ [][AccountsNext]_<<accountVars, serviceVars>>

-----------------------------------------------------------------------------
(* A reset link sets the password once, or once per handler that was        *)
(* already past the check when it was spent, however many links are asked   *)
(* for meanwhile (auth.service resetPassword: the write clears whatever     *)
(* link there is).                                                          *)
ResetLinkWorksOnce == \A t \in 1 .. issued : resets[t] <= Side

Verifying(u) == \E h \in Handlers : call[h].op = "verifyEmail" /\ call[h].id = u

(* A professional who verifies the address by the link while onboarding has *)
(* the trial, unless the server stopped or the account was removed between  *)
(* the two writes; and nobody has more trials than handlers verified side   *)
(* by side (auth.service verifyEmail: the second write is lost with the     *)
(* first one kept, and the link then says "already verified").              *)
TrialGoesWithVerification ==
    \A u \in DOMAIN users :
        /\ users[u].byLink /\ users[u].onboarding /\ TrialDays > 0 =>
              trials[u] > 0 \/ u \in cut \/ Verifying(u)
        /\ trials[u] <= Side
=============================================================================
