---------------------------- MODULE LoginSecurity ----------------------------
(***************************************************************************)
(* What stands before a session: the login captcha, the captcha sent by    *)
(* mail for a new address, the count of wrong passwords and the lock on    *)
(* the user it ends in, and the settings that the table of settings        *)
(* overrides (admin/service/auth_service.py,                               *)
(* user_password_history_service.py, utils/dynamic_config.py).             *)
(*                                                                         *)
(* Every command to Redis is a step; the requests of all processes run     *)
(* between each other's.  One user; a code of a captcha is the number of   *)
(* its issue, so that 0 is no code and a wrong answer.                     *)
(***************************************************************************)
EXTENDS Naturals, FiniteSets

CONSTANTS
    Attempts,    \* POST /login, POST /login/swagger
    Mails,       \* PUT /sys/users/me/email
    Casts,       \* sets of them: a behaviour has the requests of one
    Captchas,    \* uuids of login captchas
    Address,     \* the key of the captcha sent by mail: the client's address
    Threshold,   \* USER_LOCK_THRESHOLD when the lock is on
    MaxIssues,   \* bound: captchas issued for one key
    MaxExpiries, \* bound: keys that expire
    MaxEdits,    \* bound: changes of the table of settings
    None

\* What the constants are.
LoginAssumption ==
    /\ Threshold \in Nat \ {0} /\ MaxIssues \in Nat /\ MaxExpiries \in Nat /\ MaxEdits \in Nat
    /\ Attempts \cap Mails = {} /\ Casts \subseteq SUBSET (Attempts \cup Mails) /\ Address \notin Captchas

Asked == Attempts \cup Mails
Codes == Captchas \cup {Address}
Switches == [captcha : BOOLEAN, threshold : {0, Threshold}]

VARIABLES
    table,      \* the rows of sys_config, None when there are none or they are switched off
    settings,   \* settings of the process, which last what it loaded
    code,       \* code[k]: the captcha under the key, 0 when it is gone
    issued,     \* issued[k]: captchas issued for the key
    lock,       \* {USER_LOCK_REDIS_PREFIX}:{id}: "none", "held", or "past" its time
    failures,   \* {LOGIN_FAILURE_PREFIX}:{id}, 0 when it is gone
    pc,
    answer,     \* answer[r]: [key, code] that the request presents
    count,      \* count[a]: the failures an attempt has read, plus its own
    expiries, edits,
    spent,      \* history: captchas deleted by requests they let through
    before,     \* history: before[r], spent when the request began
    reused,     \* history: a request was let through with one spent before it began
    wrong,      \* history: wrong passwords compared since the count was last empty
    mixed       \* history: two attempts were past the look at the lock at once

vars == <<table, settings, code, issued, lock, failures, pc, answer, count,
          expiries, edits, spent, before, reused, wrong, mixed>>

history == <<spent, before, reused, wrong, mixed>>

Ended == {"in", "failed"}
Counting == {"password", "count", "store", "lock", "ok lock", "ok failures", "past lock", "past failures"}

Goes(r, to) == pc' = [pc EXCEPT ![r] = to]

\* Settings follow the table when it has rows that are on, and stay otherwise.
Loaded == IF table = None THEN settings ELSE table
LoadConfig == settings' = Loaded

-----------------------------------------------------------------------------
(* Captchas.                                                               *)

\* Bound: a captcha is asked for by somebody who is going to use one.
GetCaptcha(k) ==
    /\ \E r \in IF k = Address THEN Mails ELSE Attempts : pc[r] = "idle"
    /\ issued[k] < IF k = Address THEN MaxIssues ELSE 1
    /\ issued' = [issued EXCEPT ![k] = @ + 1]
    /\ code' = [code EXCEPT ![k] = issued[k] + 1]
    /\ IF k = Address THEN UNCHANGED settings ELSE LoadConfig
    /\ UNCHANGED <<table, lock, failures, pc, answer, count, expiries, edits, history>>

Begin(r) ==
    /\ pc[r] = "idle"
    /\ \E k \in IF r \in Mails THEN {Address} ELSE Captchas :
          \E n \in {0} \cup {code[k]} : answer' = [answer EXCEPT ![r] = [key |-> k, code |-> n]]
    /\ before' = [before EXCEPT ![r] = spent]
    /\ Goes(r, "captcha")
    /\ UNCHANGED <<table, settings, code, issued, lock, failures, count, expiries, edits,
                   spent, reused, wrong, mixed>>

\* A wrong answer leaves the captcha, and so does an address in use.
CheckCaptcha(r) ==
    /\ pc[r] = "captcha"
    /\ IF r \in Attempts THEN LoadConfig ELSE UNCHANGED settings
    /\ LET k == answer[r].key
           right == code[k] # 0 /\ answer[r].code = code[k] IN
       IF r \in Attempts /\ ~settings'.captcha
       THEN Goes(r, "status") /\ UNCHANGED reused
       ELSE \/ /\ right
               /\ Goes(r, "spend")
               /\ reused' = (reused \/ <<k, code[k]>> \in before[r])
            \/ /\ ~right \/ r \in Mails
               /\ Goes(r, "failed")
               /\ UNCHANGED reused
    /\ UNCHANGED <<table, code, issued, lock, failures, answer, count, expiries, edits,
                   spent, before, wrong, mixed>>

\* Mutant: the captcha is left to expire.
SpendCaptchaLeft(r) ==
    /\ pc[r] = "spend"
    /\ spent' = spent \cup {<<answer[r].key, answer[r].code>>}
    /\ Goes(r, IF r \in Mails THEN "in" ELSE "status")
    /\ UNCHANGED <<table, settings, code, issued, lock, failures, answer, count, expiries, edits,
                   before, reused, wrong, mixed>>

\* The key is deleted, whatever was issued for it meanwhile.
SpendCaptcha(r) ==
    /\ pc[r] = "spend"
    /\ code' = [code EXCEPT ![answer[r].key] = 0]
    /\ spent' = spent \cup {<<answer[r].key, answer[r].code>>}
    /\ Goes(r, IF r \in Mails THEN "in" ELSE "status")
    /\ UNCHANGED <<table, settings, issued, lock, failures, answer, count, expiries, edits,
                   before, reused, wrong, mixed>>

-----------------------------------------------------------------------------
(* Wrong passwords and the lock.                                           *)

rest == <<table, code, issued, answer, expiries, edits, spent, before, reused>>

\* POST /login/swagger begins here.
SwaggerLogin(a) ==
    /\ pc[a] = "idle"
    /\ Goes(a, "status")
    /\ UNCHANGED <<rest, settings, lock, failures, count, wrong, mixed>>

\* No such user, or one that is switched off, ends it.
CheckStatus(a) ==
    /\ pc[a] = "status"
    /\ \/ Goes(a, "failed") /\ UNCHANGED mixed
       \/ /\ lock # "held"
          /\ Goes(a, IF lock = "past" THEN "past lock" ELSE "password")
          /\ mixed' = (mixed \/ \E b \in Attempts \ {a} : pc[b] \in Counting)
    /\ UNCHANGED <<rest, settings, lock, failures, count, wrong>>

DropLock(a) ==
    /\ pc[a] \in {"past lock", "ok lock"}
    /\ lock' = "none"
    /\ Goes(a, IF pc[a] = "ok lock" THEN "ok failures" ELSE "past failures")
    /\ UNCHANGED <<rest, settings, failures, count, wrong, mixed>>

DropFailures(a) ==
    /\ pc[a] \in {"past failures", "ok failures"}
    /\ failures' = 0
    /\ wrong' = 0
    /\ Goes(a, IF pc[a] = "ok failures" THEN "in" ELSE "password")
    /\ UNCHANGED <<rest, settings, lock, count, mixed>>

\* A right password may have expired; the count is then left as it is.
UserVerify(a) ==
    /\ pc[a] = "password"
    /\ LoadConfig
    /\ \/ Goes(a, "ok lock") /\ UNCHANGED wrong
       \/ Goes(a, "failed") /\ UNCHANGED wrong
       \/ /\ Loaded.threshold # 0
          /\ wrong' = wrong + 1
          /\ Goes(a, "count")
    /\ UNCHANGED <<rest, lock, failures, count, mixed>>

ReadCount(a) ==
    /\ pc[a] = "count"
    /\ count' = [count EXCEPT ![a] = failures + 1]
    /\ Goes(a, "store")
    /\ UNCHANGED <<rest, settings, lock, failures, wrong, mixed>>

\* Mutant: one failure too many.
ReachesThresholdLate(n) == n > settings.threshold

ReachesThreshold(n) == n >= settings.threshold

StoreCount(a) ==
    /\ pc[a] = "store"
    /\ failures' = count[a]
    /\ Goes(a, IF ReachesThreshold(count[a]) THEN "lock" ELSE "failed")
    /\ UNCHANGED <<rest, settings, lock, count, wrong, mixed>>

SetLock(a) ==
    /\ pc[a] = "lock"
    /\ lock' = "held"
    /\ Goes(a, "failed")
    /\ UNCHANGED <<rest, settings, failures, count, wrong, mixed>>

-----------------------------------------------------------------------------
(* Time and the administrator.                                             *)

Expire ==
    /\ expiries < MaxExpiries
    /\ expiries' = expiries + 1
    /\ UNCHANGED <<table, settings, issued, pc, answer, count, edits, spent, before, reused, mixed>>
    /\ \/ \E k \in Codes : /\ code[k] # 0
                           /\ code' = [code EXCEPT ![k] = 0]
                           /\ UNCHANGED <<lock, failures, wrong>>
       \/ /\ failures # 0
          /\ failures' = 0 /\ wrong' = 0
          /\ UNCHANGED <<code, lock>>
       \/ /\ lock = "held" /\ failures = 0
          /\ lock' \in {"past", "none"}
          /\ UNCHANGED <<code, failures, wrong>>

EditConfig ==
    /\ edits < MaxEdits
    /\ edits' = edits + 1
    /\ table' \in (Switches \cup {None}) \ {table}
    /\ UNCHANGED <<settings, code, issued, lock, failures, pc, answer, count, expiries, history>>

Init ==
    /\ table = None
    /\ settings \in Switches
    /\ code = [k \in Codes |-> 0]
    /\ issued = [k \in Codes |-> 0]
    /\ lock = "none" /\ failures = 0
    /\ \E cast \in Casts : pc = [r \in Asked |-> IF r \in cast THEN "idle" ELSE "failed"]
    /\ answer = [r \in Asked |-> [key |-> Address, code |-> 0]]
    /\ count = [a \in Attempts |-> 0]
    /\ expiries = 0 /\ edits = 0
    /\ spent = {}
    /\ before = [r \in Asked |-> {}]
    /\ reused = FALSE /\ wrong = 0 /\ mixed = FALSE

Next ==
    \/ \E k \in Codes : GetCaptcha(k)
    \/ \E r \in Asked : Begin(r) \/ CheckCaptcha(r) \/ SpendCaptcha(r)
    \/ \E a \in Attempts :
          \/ SwaggerLogin(a) \/ CheckStatus(a) \/ DropLock(a) \/ DropFailures(a)
          \/ UserVerify(a) \/ ReadCount(a) \/ StoreCount(a) \/ SetLock(a)
    \/ Expire \/ EditConfig

Spec == Init /\ [][Next]_vars

-----------------------------------------------------------------------------
TypeOK ==
    /\ table \in Switches \cup {None} /\ settings \in Switches
    /\ code \in [Codes -> Nat] /\ issued \in [Codes -> Nat]
    /\ lock \in {"none", "held", "past"} /\ failures \in Nat
    /\ pc \in [Asked -> {"idle", "captcha", "spend", "status"} \cup Counting \cup Ended]
    /\ answer \in [Asked -> [key : Codes, code : Nat]]
    /\ count \in [Attempts -> Nat]
    /\ expiries \in 0..MaxExpiries /\ edits \in 0..MaxEdits
    /\ spent \subseteq Codes \X Nat /\ before \in [Asked -> SUBSET (Codes \X Nat)]
    /\ reused \in BOOLEAN /\ wrong \in Nat /\ mixed \in BOOLEAN

\* A captcha lets nobody through who asks after it has let somebody through:
\* login and update_email compare it and delete it in two commands, so that
\* only requests that overlap may share it.
CaptchaSpent == ~reused

\* As long as attempts do not overlap, no more wrong passwords are compared
\* than the threshold before the count expires or a right one empties it:
\* handle_login_failure counts and locks, check_status refuses.
LockHolds == mixed \/ wrong <= Threshold
=============================================================================
