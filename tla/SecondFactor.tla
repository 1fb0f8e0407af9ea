---------------------------- MODULE SecondFactor ----------------------------
(***************************************************************************)
(* The second factor of one account: an authenticator app, the recovery    *)
(* codes issued with it, and the challenges that hold a sign-in open.      *)
(* Requests interleave between any two of their statements.  Whether a     *)
(* code from the app or from the mail is right is left open.               *)
(***************************************************************************)
EXTENDS Requests, Naturals, FiniteSets

CONSTANTS
  Codes,       \* recovery codes that may ever be generated
  CodesPerSet, \* RECOVERY_CODE_COUNT
  Challenges,  \* otp_challenges that may be created
  Logins,      \* requests in flight at once
  MaxTries     \* security.maxLoginAttempts

ASSUME CodesAssumption == IsFiniteSet(Codes) /\ CodesPerSet \in Nat \ {0} /\ MaxTries \in Nat \ {0}

VARIABLES
  app,       \* "on" once totpConfirmedAt is set, "pending" with an unconfirmed totpSecret
  recovery,  \* each recovery code: not generated, usedAt null, usedAt set, row deleted
  challenge, \* otp_challenges
  login,     \* requests in flight
  spends     \* times each recovery code was accepted

factorVars == <<app, recovery, challenge, login, spends>>

CodeStates == {"unissued", "live", "spent", "gone"}
Methods    == {"EMAIL", "TOTP"}
Purposes   == {"disable", "regenerate"} \cup Challenges   \* what a code is given for
ChallengeRows == [state : {"none", "open", "consumed"}, method : Methods, attempts : 0..MaxTries]

LoginStates ==
  {Idle} \cup [pc : {"supersede", "challenge"}, method : Methods]
  \cup [pc : {"find", "spend"}, purpose : Purposes, code : Codes, tried : 0..MaxTries]
  \cup [pc : {"accepted"}, purpose : Purposes]
  \cup [pc : {"enrol", "confirm"}] \cup [pc : {"refused"}, purpose : Challenges, tried : 0..MaxTries]

FactorTypeOK ==
  /\ app \in {"none", "pending", "on"}
  /\ recovery \in [Codes -> CodeStates]
  /\ challenge \in [Challenges -> ChallengeRows]
  /\ login \in [Logins -> LoginStates]
  /\ spends \in [Codes -> Nat]

FactorInit ==
  /\ app = "none"
  /\ recovery = [c \in Codes |-> "unissued"]
  /\ challenge = [k \in Challenges |-> [state |-> "none", method |-> "EMAIL", attempts |-> 0]]
  /\ login = [s \in Logins |-> Idle]
  /\ spends = [c \in Codes |-> 0]

-----------------------------------------------------------------------------
(* deleteMany and createMany of the codes, one transaction.                *)
Retired == [c \in Codes |-> IF recovery[c] = "unissued" THEN "unissued" ELSE "gone"]
FreshSet(r) ==
  \E set \in SUBSET {c \in Codes : recovery[c] = "unissued"} :
    /\ Cardinality(set) = CodesPerSet
    /\ r = [c \in Codes |-> IF c \in set THEN "live" ELSE Retired[c]]
Closed(ks) == [k \in Challenges |-> IF k \in ks /\ challenge[k].state = "open"
                                    THEN [challenge[k] EXCEPT !.state = "consumed"] ELSE challenge[k]]

-----------------------------------------------------------------------------
(* login, once the password is right, and resendOtp: any challenge that is *)
(* open is superseded, and then another is created.                        *)

Challenge(s, method) ==
  /\ method = IF app = "on" THEN "TOTP" ELSE "EMAIL"
  /\ Begin(login, s, [pc |-> "supersede", method |-> method])
  /\ UNCHANGED <<app, recovery, challenge, spends>>

Supersede(s) ==
  /\ At(login, s, "supersede")
  /\ challenge' = Closed(Challenges)
  /\ Continue(login, s, [login[s] EXCEPT !.pc = "challenge"])
  /\ UNCHANGED <<app, recovery, spends>>

CreateChallenge(s, k) ==
  /\ At(login, s, "challenge")
  /\ challenge[k].state = "none"
  /\ challenge' = [challenge EXCEPT ![k] = [state |-> "open", method |-> login[s].method, attempts |-> 0]]
  /\ Finish(login, s)
  /\ UNCHANGED <<app, recovery, spends>>

-----------------------------------------------------------------------------
(* verifyOtp, disable and regenerateRecoveryCodes check a code first.      *)

Asked(k) == challenge[k].state = "open" /\ challenge[k].attempts < MaxTries

Check(purpose) == IF purpose \in Challenges THEN Asked(purpose) ELSE app = "on"
Tried(purpose) == IF purpose \in Challenges THEN challenge[purpose].attempts ELSE 0
ByApp(purpose) == purpose \in Challenges => challenge[purpose].method = "TOTP"

Accepted(purpose) == [pc |-> "accepted", purpose |-> purpose]
Refused(purpose, tried) ==
  IF purpose \in Challenges THEN [pc |-> "refused", purpose |-> purpose, tried |-> tried] ELSE Idle

(* The app's or the mail's own code, right or wrong; of the app once it    *)
(* has been set up.                                                        *)
GiveOwnCode(s, purpose) ==
  /\ Check(purpose)
  /\ \/ (ByApp(purpose) => app # "none") /\ Begin(login, s, Accepted(purpose))
     \/ Begin(login, s, Refused(purpose, Tried(purpose)))
  /\ UNCHANGED <<app, recovery, challenge, spends>>

GiveRecoveryCode(s, purpose, code) ==
  /\ Check(purpose) /\ ByApp(purpose)
  /\ recovery[code] # "unissued"
  /\ Begin(login, s, [pc |-> "find", purpose |-> purpose, code |-> code, tried |-> Tried(purpose)])
  /\ UNCHANGED <<app, recovery, challenge, spends>>

(* A challenge that was tried too often is closed.                         *)
Exhaust(k) ==
  /\ challenge[k].state = "open" /\ challenge[k].attempts >= MaxTries
  /\ challenge' = Closed({k})
  /\ UNCHANGED <<app, recovery, login, spends>>

(* consumeRecoveryCode: the unused codes are read, the one that matches is *)
(* spent.                                                                  *)
FindCode(s) ==
  LET r == login[s] IN
  /\ At(login, s, "find")
  /\ Continue(login, s, IF recovery[r.code] = "live" THEN [r EXCEPT !.pc = "spend"] ELSE Refused(r.purpose, r.tried))
  /\ UNCHANGED <<app, recovery, challenge, spends>>

(* Mutant of Unspent: the update goes by the id alone.                     *)
UnspentOrNot(c) == recovery[c] \in {"live", "spent"}
Unspent(c)      == recovery[c] = "live"

SpendCode(s) ==
  LET r == login[s] IN
  /\ At(login, s, "spend")
  /\ IF Unspent(r.code)
       THEN /\ recovery' = [recovery EXCEPT ![r.code] = "spent"]
            /\ spends' = [spends EXCEPT ![r.code] = @ + 1]
            /\ Continue(login, s, Accepted(r.purpose))
       ELSE Continue(login, s, Refused(r.purpose, r.tried)) /\ UNCHANGED <<recovery, spends>>
  /\ UNCHANGED <<app, challenge>>

CountRefusal(s) ==
  LET r == login[s] IN
  /\ At(login, s, "refused")
  /\ challenge' = [challenge EXCEPT ![r.purpose].attempts = r.tried + 1]
  /\ Finish(login, s)
  /\ UNCHANGED <<app, recovery, spends>>

SignIn(s) ==
  /\ At(login, s, "accepted") /\ login[s].purpose \in Challenges
  /\ challenge' = Closed({login[s].purpose})
  /\ Finish(login, s)
  /\ UNCHANGED <<app, recovery, spends>>

Disable(s) ==
  /\ At(login, s, "accepted") /\ login[s].purpose = "disable"
  /\ app' = "none" /\ recovery' = Retired
  /\ Finish(login, s)
  /\ UNCHANGED <<challenge, spends>>

Regenerate(s) ==
  /\ At(login, s, "accepted") /\ login[s].purpose = "regenerate"
  /\ FreshSet(recovery')
  /\ Finish(login, s)
  /\ UNCHANGED <<app, challenge, spends>>

-----------------------------------------------------------------------------
(* Enrolment, and an administrator's resetFor.                             *)

StartEnrolment(s, step) ==
  /\ \/ step = "enrol" /\ app # "on"
     \/ step = "confirm" /\ app = "pending"
  /\ Begin(login, s, [pc |-> step])
  /\ UNCHANGED <<app, recovery, challenge, spends>>

BeginEnrolment(s) ==
  /\ At(login, s, "enrol")
  /\ app' = "pending"
  /\ Finish(login, s)
  /\ UNCHANGED <<recovery, challenge, spends>>

ConfirmEnrolment(s) ==
  /\ At(login, s, "confirm")
  /\ app' = "on" /\ FreshSet(recovery')
  /\ Finish(login, s)
  /\ UNCHANGED <<challenge, spends>>

ResetFor ==
  /\ app' = "none" /\ recovery' = Retired /\ challenge' = Closed(Challenges)
  /\ UNCHANGED <<login, spends>>

AbandonLogin(s) == Drop(login, s) /\ UNCHANGED <<app, recovery, challenge, spends>>

FactorStep(s) ==
  \/ Supersede(s) \/ FindCode(s) \/ SpendCode(s) \/ CountRefusal(s) \/ SignIn(s)
  \/ Disable(s) \/ Regenerate(s) \/ BeginEnrolment(s) \/ ConfirmEnrolment(s) \/ AbandonLogin(s)
  \/ \E m \in Methods : Challenge(s, m)
  \/ \E k \in Challenges : CreateChallenge(s, k)
  \/ \E p \in Purposes : GiveOwnCode(s, p) \/ \E c \in Codes : GiveRecoveryCode(s, p, c)
  \/ \E step \in {"enrol", "confirm"} : StartEnrolment(s, step)

FactorNext ==
  \/ \E s \in Logins : FactorStep(s)
  \/ \E k \in Challenges : Exhaust(k)
  \/ ResetFor

FactorSpec == FactorInit /\ [][FactorNext]_factorVars

-----------------------------------------------------------------------------
(* A recovery code lets its owner through once, though several requests    *)
(* have found it unused before one of them spent it, and though the set is *)
(* replaced in between (consumeRecoveryCode's conditional update).         *)
RecoveryCodeOnce == \A c \in Codes : spends[c] <= 1
=============================================================================
