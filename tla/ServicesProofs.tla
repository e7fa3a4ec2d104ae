--------------------------- MODULE ServicesProofs ---------------------------
(***************************************************************************)
(* Proofs about Services, for all values of the constants.  Each part has  *)
(* an inductive invariant of its own: that of AdminRows is in its own      *)
(* proof module, those of the other parts are here.  A behaviour of        *)
(* Services is one of its part's specification, which carries the theorems *)
(* over.                                                                   *)
(***************************************************************************)
EXTENDS Services, Naturals, Sequences, FiniteSets, TLAPS

-----------------------------------------------------------------------------
(* Before a login: captchas, and the count of wrong passwords.             *)

\* A captcha that can be used is the latest of its key and was not spent, and
\* a captcha that was spent is not a later one than that.
Unspent ==
    /\ \A k \in G!Codes : code[k] # 0 => code[k] = issued[k] /\ <<k, code[k]>> \notin spent
    /\ \A k \in G!Codes, n \in Nat : <<k, n>> \in spent => n <= issued[k]
    /\ \A r \in G!Asked : before[r] \subseteq spent
    /\ \A r \in G!Asked : pc[r] = "spend" => answer[r].code <= issued[answer[r].key]
    /\ ~reused

\* As long as attempts do not overlap, one at most is past the look at the lock,
\* and none while the lock is held; the count stands at the threshold only when
\* the lock is held or about to be; and it falls behind the wrong passwords only
\* by the one that an attempt is about to store.
Counted ==
    /\ \A a, b \in Attempts : pc[a] \in G!Counting /\ pc[b] \in G!Counting => a = b
    /\ lock = "held" => \A a \in Attempts : pc[a] \notin G!Counting
    /\ failures <= Threshold
    /\ failures = Threshold => lock = "held" \/ \E a \in Attempts : pc[a] = "lock"
    /\ \A a \in Attempts : pc[a] = "count" => wrong <= failures + 1
    /\ \A a \in Attempts : pc[a] = "store" => wrong <= count[a] /\ count[a] <= Threshold
    /\ (\A a \in Attempts : pc[a] \notin {"count", "store"}) => wrong <= failures

LoginInv == G!LoginAssumption /\ G!TypeOK /\ Unspent /\ (mixed \/ Counted)

-----------------------------------------------------------------------------

\* Loading the settings leaves the table's or the process's own.
LEMMA LoadedType == ASSUME G!TypeOK PROVE G!Loaded \in G!Switches
  BY DEF G!TypeOK, G!Loaded

LEMMA LoginInitType == ASSUME G!LoginAssumption, G!Init PROVE G!TypeOK
  <1>1. \A r \in G!Asked : [key |-> Address, code |-> 0] \in [key : G!Codes, code : Nat]
    BY DEF G!Codes
  <1>2. pc \in [G!Asked -> {"idle", "captcha", "spend", "status"} \cup G!Counting \cup G!Ended]
    BY DEF G!Init, G!Ended
  <1>3. answer \in [G!Asked -> [key : G!Codes, code : Nat]]
    BY <1>1 DEF G!Init
  <1>4. expiries \in 0..MaxKeyExpiries /\ edits \in 0..MaxEdits
    BY DEF G!Init, G!LoginAssumption
  <1> QED
    BY <1>2, <1>3, <1>4 DEF G!Init, G!TypeOK

LEMMA LoginInitInv == ASSUME G!LoginAssumption, G!Init PROVE LoginInv
  <1>1. G!TypeOK
    BY LoginInitType
  <1>2. Unspent
    BY DEF G!Init, Unspent, G!Codes, G!Asked
  <1>3. Counted
    BY DEF G!Init, Counted, G!Counting, G!Asked, G!LoginAssumption
  <1> QED
    BY <1>1, <1>2, <1>3 DEF LoginInv

\* Every step keeps the types.
LEMMA LoginNextType == ASSUME G!LoginAssumption, G!TypeOK, G!Next PROVE G!TypeOK'
  <1>1. ASSUME NEW k \in G!Codes, G!GetCaptcha(k) PROVE G!TypeOK'
    BY <1>1, LoadedType DEF G!TypeOK, G!GetCaptcha, G!LoadConfig, G!history
  <1>2. ASSUME NEW r \in G!Asked, G!Begin(r) PROVE G!TypeOK'
    <2>1. PICK k \in G!Codes, n \in Nat : answer' = [answer EXCEPT ![r] = [key |-> k, code |-> n]]
      BY <1>2 DEF G!Begin, G!Codes, G!TypeOK
    <2> QED
      BY <1>2, <2>1 DEF G!TypeOK, G!Begin, G!Goes
  <1>3. ASSUME NEW r \in G!Asked, G!CheckCaptcha(r) PROVE G!TypeOK'
    <2>1. reused' \in BOOLEAN
      BY <1>3, Zenon DEF G!CheckCaptcha, G!TypeOK
    <2>2. settings' \in G!Switches
      BY <1>3, LoadedType DEF G!CheckCaptcha, G!TypeOK, G!LoadConfig
    <2>3. \E to \in {"status", "spend", "failed"} : G!Goes(r, to)
      BY <1>3 DEF G!CheckCaptcha
    <2> QED
      BY <1>3, <2>1, <2>2, <2>3 DEF G!TypeOK, G!CheckCaptcha, G!Goes, G!Ended
  <1>4. ASSUME NEW r \in G!Asked, G!SpendCaptcha(r) PROVE G!TypeOK'
    <2>1. spent' \subseteq G!Codes \X Nat
      BY <1>4 DEF G!TypeOK, G!SpendCaptcha
    <2> QED
      BY <1>4, <2>1 DEF G!TypeOK, G!SpendCaptcha, G!Goes, G!Ended
  <1>5. ASSUME NEW a \in Attempts, G!SwaggerLogin(a) PROVE G!TypeOK'
    BY <1>5 DEF G!TypeOK, G!SwaggerLogin, G!Goes, G!rest, G!Asked
  <1>6. ASSUME NEW a \in Attempts, G!CheckStatus(a) PROVE G!TypeOK'
    <2>1. mixed' \in BOOLEAN
      BY <1>6, Zenon DEF G!CheckStatus, G!TypeOK
    <2> QED
      BY <1>6, <2>1 DEF G!TypeOK, G!CheckStatus, G!Goes, G!rest, G!Asked, G!Counting, G!Ended
  <1>7. ASSUME NEW a \in Attempts, G!DropLock(a) PROVE G!TypeOK'
    BY <1>7 DEF G!TypeOK, G!DropLock, G!Goes, G!rest, G!Asked, G!Counting
  <1>8. ASSUME NEW a \in Attempts, G!DropFailures(a) PROVE G!TypeOK'
    BY <1>8 DEF G!TypeOK, G!DropFailures, G!Goes, G!rest, G!Asked, G!Counting, G!Ended
  <1>9. ASSUME NEW a \in Attempts, G!UserVerify(a) PROVE G!TypeOK'
    <2>1. settings' \in G!Switches
      BY <1>9, LoadedType DEF G!UserVerify, G!LoadConfig
    <2>2. wrong' \in {wrong, wrong + 1}
      BY <1>9, Zenon DEF G!UserVerify
    <2>3. \E to \in {"ok lock", "failed", "count"} : G!Goes(a, to)
      BY <1>9 DEF G!UserVerify
    <2>4. pc' \in [G!Asked -> {"idle", "captcha", "spend", "status"} \cup G!Counting \cup G!Ended]
      BY <2>3 DEF G!TypeOK, G!Goes, G!Asked, G!Counting, G!Ended
    <2>5. UNCHANGED <<G!rest, lock, failures, count, mixed>>
      BY <1>9 DEF G!UserVerify
    <2> QED
      BY <2>1, <2>2, <2>4, <2>5 DEF G!TypeOK, G!rest
  <1>10. ASSUME NEW a \in Attempts, G!ReadCount(a) PROVE G!TypeOK'
    <2>1. pc' \in [G!Asked -> {"idle", "captcha", "spend", "status"} \cup G!Counting \cup G!Ended]
      BY <1>10 DEF G!TypeOK, G!ReadCount, G!Goes, G!Asked, G!Counting
    <2>2. count' \in [Attempts -> Nat]
      BY <1>10 DEF G!TypeOK, G!ReadCount
    <2> QED
      BY <1>10, <2>1, <2>2 DEF G!TypeOK, G!ReadCount, G!rest
  <1>11. ASSUME NEW a \in Attempts, G!StoreCount(a) PROVE G!TypeOK'
    BY <1>11 DEF G!TypeOK, G!StoreCount, G!Goes, G!rest, G!Asked, G!Counting, G!Ended
  <1>12. ASSUME NEW a \in Attempts, G!SetLock(a) PROVE G!TypeOK'
    BY <1>12 DEF G!TypeOK, G!SetLock, G!Goes, G!rest, G!Asked, G!Ended
  <1>13. CASE G!Expire
    <2>1. expiries' \in 0..MaxKeyExpiries
      BY <1>13 DEF G!Expire, G!TypeOK, G!LoginAssumption
    <2>2. code' \in [G!Codes -> Nat]
      BY <1>13 DEF G!Expire, G!TypeOK
    <2>3. lock' \in {"none", "held", "past"} /\ failures' \in Nat /\ wrong' \in Nat
      BY <1>13 DEF G!Expire, G!TypeOK
    <2> QED
      BY <1>13, <2>1, <2>2, <2>3 DEF G!TypeOK, G!Expire
  <1>14. CASE G!EditConfig
    BY <1>14 DEF G!TypeOK, G!EditConfig, G!history, G!LoginAssumption
  <1> QED
    BY <1>1, <1>2, <1>3, <1>4, <1>5, <1>6, <1>7, <1>8, <1>9, <1>10, <1>11, <1>12, <1>13, <1>14
    DEF G!Next

-----------------------------------------------------------------------------
(* Captchas.                                                               *)

\* Steps that neither issue, ask for, compare nor spend a captcha.
LEMMA UnspentQuiet ==
    ASSUME Unspent, UNCHANGED <<issued, spent, before, answer, reused>>,
           \A k \in G!Codes : code'[k] \in {code[k], 0},
           \A r \in G!Asked : pc'[r] = "spend" => pc[r] = "spend"
    PROVE  Unspent'
  BY DEF Unspent

LEMMA NextUnspent == ASSUME G!LoginAssumption, G!TypeOK, Unspent, G!Next PROVE Unspent'
  <1>1. ASSUME NEW k \in G!Codes, G!GetCaptcha(k) PROVE Unspent'
    <2>1. issued'[k] = issued[k] + 1 /\ code'[k] = issued[k] + 1
      BY <1>1 DEF G!GetCaptcha, G!TypeOK
    <2>2. \A j \in G!Codes \ {k} : issued'[j] = issued[j] /\ code'[j] = code[j]
      BY <1>1 DEF G!GetCaptcha, G!TypeOK
    <2>3. \A j \in G!Codes : issued[j] \in Nat /\ issued[j] <= issued'[j]
      BY <2>1, <2>2 DEF G!TypeOK
    <2>4. UNCHANGED <<spent, before, answer, reused, pc>>
      BY <1>1 DEF G!GetCaptcha, G!history
    <2>5. <<k, issued[k] + 1>> \notin spent
      BY <2>3 DEF Unspent
    <2>6. \A r \in G!Asked : answer[r].key \in G!Codes /\ answer[r].code \in Nat
      BY DEF G!TypeOK
    <2> QED
      BY <2>1, <2>2, <2>3, <2>4, <2>5, <2>6 DEF Unspent
  <1>2. ASSUME NEW r \in G!Asked, G!Begin(r) PROVE Unspent'
    <2>1. \A q \in G!Asked : pc'[q] = "spend" => pc[q] = "spend" /\ answer'[q] = answer[q]
      BY <1>2 DEF G!Begin, G!Goes, G!TypeOK
    <2>2. \A q \in G!Asked : before'[q] \subseteq spent
      BY <1>2 DEF G!Begin, Unspent, G!TypeOK
    <2> QED
      BY <1>2, <2>1, <2>2 DEF Unspent, G!Begin
  <1>3. ASSUME NEW r \in G!Asked, G!CheckCaptcha(r) PROVE Unspent'
    <2>1. UNCHANGED <<code, issued, answer, spent, before>>
      BY <1>3 DEF G!CheckCaptcha
    <2>2. \A q \in G!Asked \ {r} : pc'[q] = pc[q]
      BY <1>3 DEF G!CheckCaptcha, G!Goes, G!TypeOK
    <2>3. CASE pc'[r] = "spend"
      <3>1. /\ code[answer[r].key] # 0 /\ answer[r].code = code[answer[r].key]
            /\ reused' = (reused \/ <<answer[r].key, code[answer[r].key]>> \in before[r])
        BY <1>3, <2>3 DEF G!CheckCaptcha, G!Goes, G!TypeOK
      <3>2. answer[r].key \in G!Codes
        BY DEF G!TypeOK
      <3>3. ~reused' /\ answer[r].code <= issued[answer[r].key]
        BY <3>1, <3>2 DEF Unspent, G!TypeOK
      <3> QED
        BY <2>1, <2>2, <3>3 DEF Unspent
    <2>4. CASE pc'[r] # "spend"
      <3>1. UNCHANGED reused
        BY <1>3, <2>4 DEF G!CheckCaptcha, G!Goes, G!TypeOK
      <3> QED
        BY <2>1, <2>2, <2>4, <3>1 DEF Unspent
    <2> QED
      BY <2>3, <2>4
  <1>4. ASSUME NEW r \in G!Asked, G!SpendCaptcha(r) PROVE Unspent'
    <2> DEFINE k == answer[r].key
    <2>1. k \in G!Codes /\ answer[r].code \in Nat /\ answer[r].code <= issued[k]
      BY <1>4 DEF G!SpendCaptcha, Unspent, G!TypeOK
    <2>2. code'[k] = 0 /\ \A j \in G!Codes \ {k} : code'[j] = code[j]
      BY <1>4, <2>1 DEF G!SpendCaptcha, G!TypeOK
    <2>3. spent' = spent \cup {<<k, answer[r].code>>}
      BY <1>4 DEF G!SpendCaptcha
    <2>4. \A q \in G!Asked : pc'[q] = "spend" => pc[q] = "spend"
      BY <1>4 DEF G!SpendCaptcha, G!Goes, G!TypeOK
    <2>5. UNCHANGED <<issued, answer, before, reused>>
      BY <1>4 DEF G!SpendCaptcha
    <2>6. \A j \in G!Codes : code'[j] # 0 => code'[j] = issued'[j] /\ <<j, code'[j]>> \notin spent'
      BY <2>1, <2>2, <2>3, <2>5 DEF Unspent
    <2>7. \A j \in G!Codes, n \in Nat : <<j, n>> \in spent' => n <= issued'[j]
      BY <2>1, <2>3, <2>5 DEF Unspent
    <2> QED
      BY <2>3, <2>4, <2>5, <2>6, <2>7 DEF Unspent
  <1>5. ASSUME NEW a \in Attempts,
               \/ G!SwaggerLogin(a) \/ G!CheckStatus(a) \/ G!DropLock(a) \/ G!DropFailures(a)
               \/ G!UserVerify(a) \/ G!ReadCount(a) \/ G!StoreCount(a) \/ G!SetLock(a)
        PROVE Unspent'
    <2>1. UNCHANGED G!rest
      BY <1>5 DEF G!SwaggerLogin, G!CheckStatus, G!DropLock, G!DropFailures, G!UserVerify, G!ReadCount,
                  G!StoreCount, G!SetLock
    <2>2. \E to \in {"status", "failed", "in"} \cup G!Counting : G!Goes(a, to)
      BY <1>5, Zenon DEF G!Counting, G!SwaggerLogin, G!CheckStatus, G!DropLock, G!DropFailures,
                         G!UserVerify, G!ReadCount,
                  G!StoreCount, G!SetLock
    <2>3. \A r \in G!Asked : pc'[r] = "spend" => pc[r] = "spend"
      BY <2>2 DEF G!Goes, G!TypeOK, G!Counting
    <2> QED
      BY <2>1, <2>3, UnspentQuiet DEF G!rest
  <1>6. CASE G!Expire
    BY <1>6, UnspentQuiet DEF G!Expire, G!TypeOK
  <1>7. CASE G!EditConfig
    BY <1>7, UnspentQuiet DEF G!EditConfig, G!history
  <1> QED
    BY <1>1, <1>2, <1>3, <1>4, <1>5, <1>6, <1>7 DEF G!Next

-----------------------------------------------------------------------------
(* The count and the lock.                                                 *)

\* Where one attempt is past the look at the lock, the others are not.
LEMMA OnlyOne ==
    ASSUME Counted, NEW a \in Attempts, pc[a] \in G!Counting
    PROVE  \A b \in Attempts \ {a} : pc[b] \notin G!Counting
  BY DEF Counted

\* Steps that leave the count and the lock alone and lead no attempt past them.
LEMMA CountedQuiet ==
    ASSUME Counted, UNCHANGED <<lock, failures, count, wrong>>,
           \A a \in Attempts : pc'[a] = pc[a] \/ (pc[a] \notin G!Counting /\ pc'[a] \notin G!Counting)
    PROVE  Counted'
  <1>1. \A a \in Attempts : pc'[a] \in G!Counting \/ pc[a] \in G!Counting => pc'[a] = pc[a]
    OBVIOUS
  <1>2. {"count", "store", "lock"} \subseteq G!Counting
    BY DEF G!Counting
  <1>3. \A a, b \in Attempts : pc'[a] \in G!Counting /\ pc'[b] \in G!Counting => a = b
    BY <1>1 DEF Counted
  <1>4. \A a \in Attempts, at \in {"count", "store", "lock"} : pc'[a] = at <=> pc[a] = at
    BY <1>1, <1>2
  <1> QED
    BY <1>1, <1>3, <1>4 DEF Counted

\* What a step of one attempt has to keep when the others are not past the lock.
LEMMA CountedStep ==
    ASSUME G!LoginAssumption, G!TypeOK, Counted, NEW a \in Attempts, NEW to, G!Goes(a, to),
           \A b \in Attempts \ {a} : pc[b] \notin G!Counting,
           lock' = "held" => to \notin G!Counting,
           failures' <= Threshold,
           failures' = Threshold => lock' = "held" \/ to = "lock",
           to = "count" => wrong' <= failures' + 1,
           to = "store" => wrong' <= count'[a] /\ count'[a] <= Threshold,
           to \notin {"count", "store"} => wrong' <= failures'
    PROVE  Counted'
  <1>1. pc'[a] = to /\ \A b \in Attempts \ {a} : pc'[b] \notin G!Counting
    BY DEF G!Goes, G!TypeOK, G!Asked
  <1>2. {"count", "store", "lock"} \subseteq G!Counting
    BY DEF G!Counting
  <1>3. \A b \in Attempts : pc'[b] \in {"count", "store", "lock"} => b = a
    BY <1>1, <1>2
  <1> QED
    BY <1>1, <1>3 DEF Counted

LEMMA NextCounted ==
    ASSUME G!LoginAssumption, G!TypeOK, mixed \/ Counted, G!Next PROVE mixed' \/ Counted'
  <1> SUFFICES ASSUME ~mixed' PROVE Counted'
    OBVIOUS
  <1>a. Threshold \in Nat \ {0} /\ failures \in Nat /\ wrong \in Nat /\ count \in [Attempts -> Nat]
    BY DEF G!TypeOK, G!LoginAssumption
  <1>b. mixed => mixed'
    BY DEF G!Next, G!GetCaptcha, G!Begin, G!CheckCaptcha, G!SpendCaptcha, G!SwaggerLogin,
           G!CheckStatus, G!DropLock,
           G!DropFailures, G!UserVerify, G!ReadCount, G!StoreCount, G!SetLock, G!Expire, G!EditConfig,
           G!history
  <1>c. Counted
    BY <1>b
  <1>1. CASE \E k \in G!Codes : G!GetCaptcha(k)
    BY <1>1, <1>c, CountedQuiet DEF G!GetCaptcha, G!history
  <1>2. ASSUME NEW r \in G!Asked, G!Begin(r) \/ G!CheckCaptcha(r) \/ G!SpendCaptcha(r) PROVE Counted'
    <2>1. UNCHANGED <<lock, failures, count, wrong>>
      BY <1>2 DEF G!Begin, G!CheckCaptcha, G!SpendCaptcha
    <2>2. pc[r] \in {"idle", "captcha", "spend"}
      BY <1>2 DEF G!Begin, G!CheckCaptcha, G!SpendCaptcha
    <2>3. \E to \in {"captcha", "status", "spend", "failed", "in"} : G!Goes(r, to)
      BY <1>2 DEF G!Begin, G!CheckCaptcha, G!SpendCaptcha
    <2>4. \A a \in Attempts : pc'[a] = pc[a] \/ (pc[a] \notin G!Counting /\ pc'[a] \notin G!Counting)
      BY <2>2, <2>3 DEF G!Goes, G!TypeOK, G!Asked, G!Counting
    <2> QED
      BY <1>c, <2>1, <2>4, CountedQuiet
  <1>3. ASSUME NEW a \in Attempts, G!SwaggerLogin(a) PROVE Counted'
    <2>1. \A b \in Attempts : pc'[b] = pc[b] \/ (pc[b] \notin G!Counting /\ pc'[b] \notin G!Counting)
      BY <1>3 DEF G!SwaggerLogin, G!Goes, G!TypeOK, G!Asked, G!Counting
    <2> QED
      BY <1>3, <1>c, <2>1, CountedQuiet DEF G!SwaggerLogin
  <1>4. ASSUME NEW a \in Attempts, G!CheckStatus(a) PROVE Counted'
    <2>1. UNCHANGED <<lock, failures, count, wrong>>
      BY <1>4 DEF G!CheckStatus
    <2>2. CASE G!Goes(a, "failed")
      <3>1. \A b \in Attempts : pc'[b] = pc[b] \/ (pc[b] \notin G!Counting /\ pc'[b] \notin G!Counting)
        BY <1>4, <2>2 DEF G!CheckStatus, G!Goes, G!TypeOK, G!Asked, G!Counting
      <3> QED
        BY <1>c, <2>1, <3>1, CountedQuiet
    <2>3. CASE ~G!Goes(a, "failed")
      <3>1. /\ lock # "held"
            /\ G!Goes(a, IF lock = "past" THEN "past lock" ELSE "password")
            /\ \A b \in Attempts \ {a} : pc[b] \notin G!Counting
        BY <1>4, <2>3 DEF G!CheckStatus
      <3>2. pc[a] \notin {"count", "store", "lock"}
        BY <1>4 DEF G!CheckStatus
      <3>3. \A b \in Attempts : pc[b] \notin {"count", "store", "lock"}
        BY <3>1, <3>2 DEF G!Counting
      <3>4. failures <= Threshold /\ failures # Threshold /\ wrong <= failures
        BY <1>c, <3>1, <3>3 DEF Counted
      <3> QED
        BY <1>c, <2>1, <3>1, <3>4, CountedStep
    <2> QED
      BY <2>2, <2>3
  <1>5. ASSUME NEW a \in Attempts,
               G!DropLock(a) \/ G!DropFailures(a) \/ G!UserVerify(a) \/ G!ReadCount(a) \/ G!StoreCount(a) \/ G!SetLock(a)
        PROVE  Counted'
    <2>1. pc[a] \in G!Counting
      BY <1>5
         DEF G!DropLock, G!DropFailures, G!UserVerify, G!ReadCount, G!StoreCount, G!SetLock, G!Counting
    <2>2. \A b \in Attempts \ {a} : pc[b] \notin G!Counting
      BY <1>c, <2>1, OnlyOne
    <2>3. lock # "held" /\ failures <= Threshold
      BY <1>c, <2>1 DEF Counted
    <2>4. pc[a] # "lock" => failures < Threshold
      <3>1. \A b \in Attempts : pc[b] = "lock" => b = a
        BY <2>2 DEF G!Counting
      <3> QED
        BY <1>a, <1>c, <2>3, <3>1 DEF Counted
    <2>5. pc[a] \notin {"count", "store"} => wrong <= failures
      BY <1>c, <2>2 DEF Counted, G!Counting
    <2>6. CASE G!DropLock(a)
      <3>1. pc[a] # "lock" /\ pc[a] \notin {"count", "store"} /\ lock' = "none"
        BY <2>6 DEF G!DropLock
      <3>2. G!Goes(a, "ok failures") \/ G!Goes(a, "past failures")
        BY <2>6 DEF G!DropLock
      <3>3. UNCHANGED <<failures, count, wrong>>
        BY <2>6 DEF G!DropLock, G!rest
      <3>4. failures < Threshold /\ wrong <= failures
        BY <2>4, <2>5, <3>1
      <3> QED
        <4>1. failures' <= Threshold /\ failures' # Threshold /\ wrong' <= failures'
          BY <1>a, <3>3, <3>4
        <4>2. lock' # "held"
          BY <3>1
        <4>3. CASE G!Goes(a, "ok failures")
          BY <1>c, <2>2, <4>1, <4>2, <4>3, CountedStep
        <4>4. CASE G!Goes(a, "past failures")
          BY <1>c, <2>2, <4>1, <4>2, <4>4, CountedStep
        <4> QED
          BY <3>2, <4>3, <4>4
    <2>7. CASE G!DropFailures(a)
      <3>1. \E to \in {"in", "password"} : G!Goes(a, to)
        BY <2>7 DEF G!DropFailures
      <3>2. failures' = 0 /\ wrong' = 0 /\ lock' # "held"
        BY <2>3, <2>7 DEF G!DropFailures
      <3> QED
        BY <1>a, <1>c, <2>2, <3>1, <3>2, CountedStep
    <2>8. CASE G!UserVerify(a)
      <3>1. pc[a] = "password" /\ UNCHANGED <<lock, failures, count>>
        BY <2>8 DEF G!UserVerify
      <3>2. \/ (G!Goes(a, "ok lock") \/ G!Goes(a, "failed")) /\ wrong' = wrong
            \/ G!Goes(a, "count") /\ wrong' = wrong + 1
        BY <2>8, Zenon DEF G!UserVerify
      <3>3. wrong <= failures /\ failures < Threshold
        BY <2>4, <2>5, <3>1
      <3>4. CASE G!Goes(a, "count") /\ wrong' = wrong + 1
        BY <1>a, <1>c, <2>2, <2>3, <3>1, <3>3, <3>4, CountedStep
      <3>5. CASE (G!Goes(a, "ok lock") \/ G!Goes(a, "failed")) /\ wrong' = wrong
        <4>1. failures' <= Threshold /\ failures' # Threshold /\ wrong' <= failures'
          <5>1. failures' = failures /\ wrong' = wrong
            BY <3>1, <3>5
          <5> QED
            BY <1>a, <3>3, <5>1
        <4>2. lock' # "held"
          BY <2>3, <3>1
        <4>3. CASE G!Goes(a, "ok lock")
          BY <1>c, <2>2, <4>1, <4>2, <4>3, CountedStep
        <4>4. CASE G!Goes(a, "failed")
          BY <1>c, <2>2, <4>1, <4>2, <4>4, CountedStep
        <4> QED
          BY <3>5, <4>3, <4>4
      <3> QED
        BY <3>2, <3>4, <3>5
    <2>9. CASE G!ReadCount(a)
      <3>1. count'[a] = failures + 1 /\ G!Goes(a, "store") /\ UNCHANGED <<lock, failures, wrong>>
        BY <1>a, <2>9 DEF G!ReadCount
      <3>2. wrong <= failures + 1 /\ failures < Threshold
        BY <1>c, <2>4, <2>9 DEF G!ReadCount, Counted
      <3> QED
        BY <1>a, <1>c, <2>2, <2>3, <3>1, <3>2, CountedStep
    <2>10. CASE G!StoreCount(a)
      <3>1. wrong <= count[a] /\ count[a] <= Threshold
        BY <1>c, <2>10 DEF G!StoreCount, Counted
      <3>2. failures' = count[a] /\ UNCHANGED <<lock, wrong>>
        BY <2>10 DEF G!StoreCount
      <3>3. count[a] = Threshold => G!ReachesThreshold(count[a])
        BY <1>a DEF G!ReachesThreshold, G!TypeOK, G!Switches
      <3>4. CASE G!ReachesThreshold(count[a])
        <4>1. G!Goes(a, "lock")
          BY <2>10, <3>4 DEF G!StoreCount
        <4> QED
          BY <1>a, <1>c, <2>2, <2>3, <3>1, <3>2, <4>1, CountedStep
      <3>5. CASE ~G!ReachesThreshold(count[a])
        <4>1. G!Goes(a, "failed")
          BY <2>10, <3>5 DEF G!StoreCount
        <4> QED
          BY <1>a, <1>c, <2>2, <2>3, <3>1, <3>2, <3>3, <3>5, <4>1, CountedStep
      <3> QED
        BY <3>4, <3>5
    <2>11. CASE G!SetLock(a)
      <3>1. G!Goes(a, "failed") /\ lock' = "held" /\ UNCHANGED <<failures, wrong>>
        BY <2>11 DEF G!SetLock
      <3>2. wrong <= failures
        BY <2>5, <2>11 DEF G!SetLock
      <3>3. "failed" \notin G!Counting
        BY DEF G!Counting
      <3> QED
        BY <1>a, <1>c, <2>2, <2>3, <3>1, <3>2, <3>3, CountedStep
    <2> QED
      BY <1>5, <2>6, <2>7, <2>8, <2>9, <2>10, <2>11
  <1>6. CASE G!Expire
    <2>1. UNCHANGED <<pc, count>>
      BY <1>6 DEF G!Expire
    <2>2. \/ UNCHANGED <<lock, failures, wrong>>
          \/ failures' = 0 /\ wrong' = 0 /\ lock' = lock
          \/ failures = 0 /\ lock' # "held" /\ UNCHANGED <<failures, wrong>>
      BY <1>6 DEF G!Expire
    <2>3. CASE UNCHANGED <<lock, failures, wrong>>
      BY <1>c, <2>1, <2>3, CountedQuiet
    <2>4. CASE failures' = 0 /\ wrong' = 0 /\ lock' = lock
      BY <1>a, <1>c, <2>1, <2>4 DEF Counted
    <2>5. CASE failures = 0 /\ lock' # "held" /\ UNCHANGED <<failures, wrong>>
      BY <1>a, <1>c, <2>1, <2>5 DEF Counted
    <2> QED
      BY <2>2, <2>3, <2>4, <2>5
  <1>7. CASE G!EditConfig
    BY <1>7, <1>c, CountedQuiet DEF G!EditConfig, G!history
  <1> QED
    BY <1>1, <1>2, <1>3, <1>4, <1>5, <1>6, <1>7 DEF G!Next

-----------------------------------------------------------------------------

\* Every step keeps the invariant.
LEMMA LoginStepInv == ASSUME LoginInv, [G!Next]_G!vars PROVE LoginInv'
  <1>1. CASE G!Next
    BY <1>1, LoginNextType, NextUnspent, NextCounted DEF LoginInv
  <1>2. CASE UNCHANGED G!vars
    BY <1>2 DEF LoginInv, G!vars, G!TypeOK, Unspent, Counted
  <1> QED
    BY <1>1, <1>2

\* Wrong passwords are at most one ahead of the stored count, and only while an
\* attempt is between its comparison and its store.
LEMMA InvLockHolds == ASSUME LoginInv PROVE G!LockHolds
  <1> SUFFICES ASSUME ~mixed PROVE wrong <= Threshold
    BY DEF G!LockHolds
  <1>1. Counted
    BY DEF LoginInv
  <1>2. Threshold \in Nat /\ failures \in Nat /\ wrong \in Nat
    BY DEF LoginInv, G!TypeOK, G!LoginAssumption
  <1>3. ASSUME NEW a \in Attempts, pc[a] = "count" PROVE wrong <= Threshold
    <2>1. failures # Threshold
      BY <1>1, <1>3, OnlyOne DEF Counted, G!Counting
    <2> QED
      BY <1>1, <1>2, <1>3, <2>1 DEF Counted
  <1>4. ASSUME NEW a \in Attempts, pc[a] = "store" PROVE wrong <= Threshold
    BY <1>1, <1>2, <1>4 DEF Counted, LoginInv, G!TypeOK
  <1> QED
    BY <1>1, <1>2, <1>3, <1>4 DEF Counted

\* Attempts that do not overlap compare at most as many wrong passwords as the
\* threshold, for every threshold and whatever expires or is configured
\* meanwhile (user_password_history_service.py).
THEOREM LoginLockHolds == G!LoginAssumption /\ G!Spec => []G!LockHolds
  <1>1. G!LoginAssumption /\ G!Init => LoginInv
    BY LoginInitInv
  <1>2. LoginInv /\ [G!Next]_G!vars => LoginInv'
    BY LoginStepInv
  <1>3. LoginInv => G!LockHolds
    BY InvLockHolds
  <1> QED
    BY <1>1, <1>2, <1>3, PTL DEF G!Spec

\* A captcha lets nobody through who asks after it was spent, for any number of
\* captchas and requests (auth_service.login, user_service.update_email).
THEOREM LoginCaptchaSpent == G!LoginAssumption /\ G!Spec => []G!CaptchaSpent
  <1>1. G!LoginAssumption /\ G!Init => LoginInv
    BY LoginInitInv
  <1>2. LoginInv /\ [G!Next]_G!vars => LoginInv'
    BY LoginStepInv
  <1>3. LoginInv => G!CaptchaSpent
    BY DEF LoginInv, Unspent, G!CaptchaSpent
  <1> QED
    BY <1>1, <1>2, <1>3, PTL DEF G!Spec

\* The state of the login keeps its types.
THEOREM LoginTypeOK == G!LoginAssumption /\ G!Spec => []G!TypeOK
  <1>1. G!LoginAssumption /\ G!Init => LoginInv
    BY LoginInitInv
  <1>2. LoginInv /\ [G!Next]_G!vars => LoginInv'
    BY LoginStepInv
  <1>3. LoginInv => G!TypeOK
    BY DEF LoginInv
  <1> QED
    BY <1>1, <1>2, <1>3, PTL DEF G!Spec
-----------------------------------------------------------------------------
(* Accounts of other sites: states and bindings.                          *)

\* A user whom it is all right to bind.
Bindable(u) == u \in Users /\ (user[u] = "live" \/ u \in orphans)

\* A callback past its beginning has asked for something, and one that was let
\* through has read what its state says.
Known ==
    \A r \in Callbacks :
        /\ pc[r] # "idle" => asks[r] \in [state : States, account : Accounts]
        /\ pc[r] \in {"spend", "binding"} => info[r] \in O!Infos

\* A state that was spent is gone and does not come back.
Gone ==
    /\ \A s \in spent : state[s] = None
    /\ \A r \in Callbacks : before[r] \subseteq spent
    /\ ~reused

\* Whoever is to be bound, from the state to the row: he is live, or his
\* deletion was noted, or the callback is about to create him.
Headed ==
    /\ \A s \in States : state[s] # None /\ state[s].type = "binding" => Bindable(state[s].user)
    /\ \A r \in Callbacks :
          /\ pc[r] = "spend" /\ info[r].type = "binding" => Bindable(info[r].user)
          /\ pc[r] = "binding" => Bindable(info[r].user)
          /\ pc[r] = "write" => target[r] \in Users /\ (user[target[r]] = "none" \/ Bindable(target[r]))
    /\ O!BoundToLive

OAuth2Inv == O!OAuthAssumption /\ O!TypeOK /\ Known /\ Gone /\ Headed

-----------------------------------------------------------------------------

LEMMA OAuth2InitInv == ASSUME O!OAuthAssumption, O!Init PROVE OAuth2Inv
  <1>1. O!TypeOK
    BY DEF O!Init, O!TypeOK, O!OAuthAssumption
  <1>2. Known /\ Gone /\ Headed
    BY DEF O!Init, Known, Gone, Headed, O!BoundToLive
  <1> QED
    BY <1>1, <1>2 DEF OAuth2Inv

\* What a callback's step leaves alone of the others.
LEMMA GoesOthers ==
    ASSUME O!TypeOK, NEW r \in Callbacks, NEW to, O!Goes(r, to)
    PROVE  pc'[r] = to /\ \A q \in Callbacks \ {r} : pc'[q] = pc[q]
  BY DEF O!Goes, O!TypeOK

\* Every step keeps the types.
LEMMA OAuth2NextType == ASSUME O!OAuthAssumption, O!TypeOK, Known, Headed, O!Next PROVE O!TypeOK'
  <1>1. ASSUME NEW s \in States, O!GetAuthUrl(s) PROVE O!TypeOK'
    BY <1>1 DEF O!TypeOK, O!GetAuthUrl, O!Infos, O!tables, O!history
  <1>2. ASSUME NEW s \in States, O!ExpireState(s) PROVE O!TypeOK'
    BY <1>2 DEF O!TypeOK, O!ExpireState, O!tables
  <1>3. ASSUME NEW s \in States, NEW u \in Users, O!GetBindingAuthUrl(s, u) PROVE O!TypeOK'
    BY <1>3 DEF O!TypeOK, O!GetBindingAuthUrl, O!Infos, O!tables, O!history
  <1>4. ASSUME NEW r \in Callbacks, O!Callback(r) PROVE O!TypeOK'
    BY <1>4 DEF O!TypeOK, O!Callback, O!Goes, O!tables
  <1>5. ASSUME NEW r \in Callbacks, O!ReadState(r) PROVE O!TypeOK'
    <2>1. asks[r].state \in States
      BY <1>5 DEF O!ReadState, Known
    <2>2. info' \in [Callbacks -> O!Infos \cup {None}]
      BY <1>5, <2>1 DEF O!TypeOK, O!ReadState
    <2>3. pc' = [pc EXCEPT ![r] = "failed"] \/ pc' = [pc EXCEPT ![r] = "spend"]
      BY <1>5 DEF O!ReadState, O!Goes
    <2> QED
      BY <1>5, <2>2, <2>3 DEF O!TypeOK, O!ReadState, O!tables
  <1>6. ASSUME NEW r \in Callbacks, O!SpendState(r) PROVE O!TypeOK'
    <2>1. asks[r].state \in States /\ info[r] \in O!Infos
      BY <1>6 DEF O!SpendState, Known
    <2>2. pc' \in [Callbacks -> {"idle", "state", "spend", "binding", "login", "write", "in", "failed"}]
      BY <1>6, <2>1 DEF O!TypeOK, O!SpendState, O!Goes, O!Infos
    <2> QED
      BY <1>6, <2>1, <2>2 DEF O!TypeOK, O!SpendState, O!tables
  <1>7. ASSUME NEW r \in Callbacks, O!BindingWithOauth2(r) PROVE O!TypeOK'
    <2>1. info[r].user \in Users \cup {None}
      BY <1>7 DEF O!BindingWithOauth2, Known, O!Infos
    <2>2. target' \in [Callbacks -> Users \cup {None}]
      BY <1>7, <2>1 DEF O!TypeOK, O!BindingWithOauth2
    <2>3. pc' \in [Callbacks -> {"idle", "state", "spend", "binding", "login", "write", "in", "failed"}]
      BY <1>7 DEF O!TypeOK, O!BindingWithOauth2, O!Goes
    <2> QED
      BY <1>7, <2>2, <2>3 DEF O!TypeOK, O!BindingWithOauth2, O!tables, O!history
  <1>8. ASSUME NEW r \in Callbacks, O!Login(r) PROVE O!TypeOK'
    <2>1. target' = target \/ \E u \in Users : target' = [target EXCEPT ![r] = u]
      BY <1>8, Zenon DEF O!Login, O!Live
    <2>2. target' \in [Callbacks -> Users \cup {None}]
      BY <2>1 DEF O!TypeOK
    <2>3. \E to \in {"in", "failed", "write"} : O!Goes(r, to)
      BY <1>8, Zenon DEF O!Login
    <2>4. pc' \in [Callbacks -> {"idle", "state", "spend", "binding", "login", "write", "in", "failed"}]
      BY <2>3 DEF O!TypeOK, O!Goes
    <2>5. UNCHANGED <<O!tables, state, asks, info, O!history, deletions>>
      BY <1>8 DEF O!Login
    <2> QED
      BY <2>2, <2>4, <2>5 DEF O!TypeOK, O!tables, O!history
  <1>9. ASSUME NEW r \in Callbacks, O!Commit(r) PROVE O!TypeOK'
    <2>1. target[r] \in Users /\ asks[r].account \in Accounts
      BY <1>9 DEF O!Commit, Headed, Known
    <2>2. bindings' \subseteq [user : Users, account : Accounts]
      BY <1>9, <2>1 DEF O!TypeOK, O!Commit, O!tables
    <2>3. user' \in [Users -> {"none", "live", "deleted"}]
      BY <1>9, <2>1 DEF O!TypeOK, O!Commit, O!tables
    <2>4. pc' \in [Callbacks -> {"idle", "state", "spend", "binding", "login", "write", "in", "failed"}]
      BY <1>9 DEF O!TypeOK, O!Commit, O!Goes
    <2>5. target' \in [Callbacks -> Users \cup {None}]
      BY <1>9 DEF O!TypeOK, O!Commit
    <2> QED
      BY <1>9, <2>2, <2>3, <2>4, <2>5 DEF O!TypeOK, O!Commit, O!history
  <1>10. ASSUME NEW u \in Users, O!Unbinding(u) PROVE O!TypeOK'
    BY <1>10 DEF O!TypeOK, O!Unbinding, O!history
  <1>11. ASSUME NEW u \in Users, O!DeleteUser(u) PROVE O!TypeOK'
    <2>1. orphans' \subseteq Users
      BY <1>11, Zenon DEF O!TypeOK, O!DeleteUser
    <2> QED
      BY <1>11, <2>1 DEF O!TypeOK, O!DeleteUser
  <1> QED
    BY <1>1, <1>2, <1>3, <1>4, <1>5, <1>6, <1>7, <1>8, <1>9, <1>10, <1>11 DEF O!Next

\* Every step keeps what callbacks past their beginning know.
LEMMA NextAsked == ASSUME O!OAuthAssumption, O!TypeOK, Known, O!Next PROVE Known'
  <1>1. CASE UNCHANGED <<pc, asks, info>>
    BY <1>1 DEF Known
  <1>2. ASSUME NEW r \in Callbacks, O!Callback(r) PROVE Known'
    <2>1. asks'[r] \in [state : States, account : Accounts] /\ pc'[r] = "state"
      BY <1>2 DEF O!Callback, O!Goes, O!TypeOK
    <2>2. \A q \in Callbacks \ {r} : pc'[q] = pc[q] /\ asks'[q] = asks[q]
      BY <1>2 DEF O!Callback, O!Goes, O!TypeOK
    <2>3. UNCHANGED info
      BY <1>2 DEF O!Callback
    <2> QED
      BY <2>1, <2>2, <2>3 DEF Known
  <1>3. ASSUME NEW r \in Callbacks, O!ReadState(r) PROVE Known'
    <2>1. asks[r] \in [state : States, account : Accounts] /\ UNCHANGED asks
      BY <1>3 DEF O!ReadState, Known
    <2>2. \A q \in Callbacks \ {r} : pc'[q] = pc[q] /\ info'[q] = info[q]
      BY <1>3 DEF O!ReadState, O!Goes, O!TypeOK
    <2>3. pc'[r] \in {"failed", "spend"} /\ (pc'[r] = "spend" => info'[r] \in O!Infos)
      BY <1>3, <2>1 DEF O!ReadState, O!Goes, O!TypeOK
    <2> QED
      BY <2>1, <2>2, <2>3 DEF Known
  <1>4. ASSUME NEW r \in Callbacks,
               O!SpendState(r) \/ O!BindingWithOauth2(r) \/ O!Login(r) \/ O!Commit(r)
        PROVE Known'
    <2>1. UNCHANGED <<asks, info>>
      BY <1>4 DEF O!SpendState, O!BindingWithOauth2, O!Login, O!Commit, O!history
    <2>2. \A q \in Callbacks \ {r} : pc'[q] = pc[q]
      BY <1>4 DEF O!SpendState, O!BindingWithOauth2, O!Login, O!Commit, O!Goes, O!TypeOK
    <2>3. pc[r] # "idle" /\ (pc[r] = "spend" \/ pc'[r] \in {"write", "failed", "in"})
      BY <1>4 DEF O!SpendState, O!BindingWithOauth2, O!Login, O!Commit, O!Goes, O!TypeOK
    <2> QED
      BY <2>1, <2>2, <2>3 DEF Known
  <1>5. (\E r \in Callbacks : \/ O!Callback(r) \/ O!ReadState(r) \/ O!SpendState(r)
                              \/ O!BindingWithOauth2(r) \/ O!Login(r) \/ O!Commit(r))
        \/ UNCHANGED <<pc, asks, info>>
    BY DEF O!Next, O!GetAuthUrl, O!GetBindingAuthUrl, O!ExpireState, O!Unbinding, O!DeleteUser,
           O!history
  <1> QED
    BY <1>1, <1>2, <1>3, <1>4, <1>5

-----------------------------------------------------------------------------
(* States.                                                                 *)

LEMMA NextGone == ASSUME O!OAuthAssumption, O!TypeOK, Known, Gone, O!Next PROVE Gone'
  <1>1. ASSUME NEW s \in States, O!Unused(s), UNCHANGED <<spent, before, reused>>,
               NEW c, state' = [state EXCEPT ![s] = c]
        PROVE Gone'
    <2>1. \A q \in spent : q # s /\ q \in States
      BY <1>1 DEF O!Unused, O!TypeOK
    <2> QED
      BY <1>1, <2>1 DEF Gone, O!TypeOK
  <1>2. ASSUME NEW s \in States, O!GetAuthUrl(s) \/ \E u \in Users : O!GetBindingAuthUrl(s, u)
        PROVE  Gone'
    BY <1>1, <1>2 DEF O!GetAuthUrl, O!GetBindingAuthUrl, O!history
  <1>3. ASSUME NEW s \in States, UNCHANGED <<before, reused>>,
               state' = [state EXCEPT ![s] = None], spent' = spent \cup {s}
        PROVE Gone'
    BY <1>3 DEF Gone, O!TypeOK
  <1>4. ASSUME NEW s \in States, O!ExpireState(s) PROVE Gone'
    BY <1>3, <1>4 DEF O!ExpireState
  <1>5. ASSUME NEW r \in Callbacks, O!Callback(r) PROVE Gone'
    BY <1>5 DEF O!Callback, Gone, O!TypeOK
  <1>6. ASSUME NEW r \in Callbacks, O!ReadState(r) PROVE Gone'
    <2>1. state[asks[r].state] = None \/ asks[r].state \notin before[r]
      BY DEF Gone
    <2>2. ~reused'
      BY <1>6, <2>1 DEF O!ReadState, Gone
    <2> QED
      BY <1>6, <2>2 DEF O!ReadState, Gone
  <1>7. ASSUME NEW r \in Callbacks, O!SpendState(r) PROVE Gone'
    <2>1. asks[r].state \in States
      BY <1>7 DEF O!SpendState, Known
    <2> QED
      BY <1>3, <1>7, <2>1 DEF O!SpendState
  <1>8. ASSUME NEW r \in Callbacks, O!BindingWithOauth2(r) \/ O!Login(r) \/ O!Commit(r) PROVE Gone'
    BY <1>8 DEF O!BindingWithOauth2, O!Login, O!Commit, O!history, Gone
  <1>9. ASSUME NEW u \in Users, O!Unbinding(u) \/ O!DeleteUser(u) PROVE Gone'
    BY <1>9 DEF O!Unbinding, O!DeleteUser, O!history, Gone
  <1> QED
    BY <1>2, <1>4, <1>5, <1>6, <1>7, <1>8, <1>9 DEF O!Next

-----------------------------------------------------------------------------
(* Bindings.                                                               *)

LEMMA NextHeaded == ASSUME O!OAuthAssumption, O!TypeOK, Known, Headed, O!Next PROVE Headed'
  <1>1. ASSUME NEW s \in States, O!GetAuthUrl(s) PROVE Headed'
    BY <1>1 DEF O!GetAuthUrl, O!tables, O!history, Headed, Bindable, O!BoundToLive, O!TypeOK
  <1>2. ASSUME NEW s \in States, NEW u \in Users, O!GetBindingAuthUrl(s, u) PROVE Headed'
    BY <1>2 DEF O!GetBindingAuthUrl, O!tables, O!history, Headed, Bindable, O!BoundToLive, O!TypeOK
  <1>3. ASSUME NEW s \in States, O!ExpireState(s) PROVE Headed'
    BY <1>3 DEF O!ExpireState, O!tables, Headed, Bindable, O!BoundToLive, O!TypeOK
  <1>4. ASSUME NEW r \in Callbacks, O!Callback(r) PROVE Headed'
    BY <1>4 DEF O!Callback, O!Goes, O!tables, Headed, Bindable, O!BoundToLive, O!TypeOK
  <1>5. ASSUME NEW r \in Callbacks, O!ReadState(r) PROVE Headed'
    <2>1. asks[r].state \in States
      BY <1>5 DEF O!ReadState, Known
    <2>2. pc'[r] \in {"failed", "spend"}
      BY <1>5 DEF O!ReadState, O!Goes, O!TypeOK
    <2>3. pc'[r] = "spend" /\ info'[r].type = "binding" => Bindable(info'[r].user)
      BY <1>5, <2>1 DEF O!ReadState, O!Goes, O!TypeOK, Headed
    <2>4. \A q \in Callbacks \ {r} : pc'[q] = pc[q] /\ info'[q] = info[q]
      BY <1>5 DEF O!ReadState, O!Goes, O!TypeOK
    <2>5. UNCHANGED <<user, bindings, state, target, orphans>>
      BY <1>5 DEF O!ReadState, O!tables
    <2> QED
      BY <2>2, <2>3, <2>4, <2>5 DEF Headed, Bindable, O!BoundToLive
  <1>6. ASSUME NEW r \in Callbacks, O!SpendState(r) PROVE Headed'
    <2>1. asks[r].state \in States /\ info[r] \in O!Infos /\ pc[r] = "spend"
      BY <1>6 DEF O!SpendState, Known
    <2>2. pc'[r] = info[r].type /\ info[r].type \in {"login", "binding"}
      BY <1>6, <2>1 DEF O!SpendState, O!Goes, O!TypeOK, O!Infos
    <2>3. \A s \in States : state'[s] = None \/ state'[s] = state[s]
      BY <1>6 DEF O!SpendState, O!TypeOK
    <2>4. \A q \in Callbacks \ {r} : pc'[q] = pc[q]
      BY <1>6 DEF O!SpendState, O!Goes, O!TypeOK
    <2>5. UNCHANGED <<user, bindings, info, target, orphans>>
      BY <1>6 DEF O!SpendState, O!tables
    <2> QED
      BY <2>1, <2>2, <2>3, <2>4, <2>5 DEF Headed, Bindable, O!BoundToLive
  <1>7. ASSUME NEW r \in Callbacks, O!BindingWithOauth2(r) PROVE Headed'
    <2>1. pc[r] = "binding" /\ Bindable(info[r].user)
      BY <1>7 DEF O!BindingWithOauth2, Headed
    <2>2. \/ pc'[r] = "write" /\ target'[r] = info[r].user
          \/ pc'[r] = "failed"
      BY <1>7 DEF O!BindingWithOauth2, O!Goes, O!TypeOK
    <2>3. \A q \in Callbacks \ {r} : pc'[q] = pc[q] /\ target'[q] = target[q]
      BY <1>7 DEF O!BindingWithOauth2, O!Goes, O!TypeOK
    <2>4. UNCHANGED <<user, bindings, state, info, orphans>>
      BY <1>7 DEF O!BindingWithOauth2, O!tables, O!history
    <2> QED
      BY <2>1, <2>2, <2>3, <2>4 DEF Headed, Bindable, O!BoundToLive
  <1>8. ASSUME NEW r \in Callbacks, O!Login(r) PROVE Headed'
    <2>1. \/ \E u \in Users : user[u] \in {"live", "none"} /\ target' = [target EXCEPT ![r] = u]
          \/ UNCHANGED target /\ \E to \in {"in", "failed"} : O!Goes(r, to)
      BY <1>8, Zenon DEF O!Login, O!Live
    <2>2. \E to \in {"in", "failed", "write"} : O!Goes(r, to)
      BY <1>8, Zenon DEF O!Login
    <2>3. /\ pc'[r] \in {"in", "failed", "write"}
          /\ pc'[r] = "write" => target'[r] \in Users /\ user[target'[r]] \in {"live", "none"}
      BY <2>1, <2>2 DEF O!Goes, O!TypeOK
    <2>4. \A q \in Callbacks \ {r} : pc'[q] = pc[q] /\ target'[q] = target[q]
      BY <2>1, <2>2 DEF O!Goes, O!TypeOK
    <2>5. UNCHANGED <<user, bindings, state, info, orphans>>
      BY <1>8 DEF O!Login, O!tables, O!history
    <2> QED
      BY <2>3, <2>4, <2>5 DEF Headed, Bindable, O!BoundToLive
  <1>9. ASSUME NEW r \in Callbacks, O!Commit(r) PROVE Headed'
    <2> DEFINE u == target[r]
    <2>1. u \in Users /\ (user[u] = "none" \/ Bindable(u))
      BY <1>9 DEF O!Commit, Headed
    <2>2. pc'[r] \in {"in", "failed"} /\ \A q \in Callbacks \ {r} : pc'[q] = pc[q] /\ target'[q] = target[q]
      BY <1>9 DEF O!Commit, O!Goes, O!TypeOK
    <2>3. UNCHANGED <<state, info, orphans>>
      BY <1>9 DEF O!Commit, O!history
    <2>4. \A v \in Users : user'[v] = user[v] \/ (user[v] = "none" /\ user'[v] = "live")
      BY <1>9, <2>1 DEF O!Commit, O!tables, O!TypeOK
    <2>5. \A b \in bindings' : b \in bindings \/ (b.user = u /\ user'[u] # "none" /\ (user[u] = "none" => user'[u] = "live"))
      BY <1>9, <2>1 DEF O!Commit, O!tables, O!TypeOK, Bindable
    <2>6. O!BoundToLive'
      BY <2>1, <2>3, <2>4, <2>5 DEF Headed, O!BoundToLive, Bindable, O!TypeOK
    <2> QED
      BY <2>2, <2>3, <2>4, <2>6 DEF Headed, Bindable
  <1>10. ASSUME NEW u \in Users, O!Unbinding(u) PROVE Headed'
    BY <1>10 DEF O!Unbinding, O!history, Headed, Bindable, O!BoundToLive
  <1>11. ASSUME NEW u \in Users, O!DeleteUser(u) PROVE Headed'
    <2>1. /\ orphans \subseteq orphans'
          /\ u \in orphans' \/ /\ \A s \in States : state[s] # None => state[s].user # u
                               /\ \A r \in Callbacks : target[r] # u
                               /\ \A r \in Callbacks : pc[r] \in {"spend", "binding"} => info[r].user # u
      BY <1>11 DEF O!DeleteUser
    <2>2. \A v \in Users \ {u} : user'[v] = user[v]
      BY <1>11 DEF O!DeleteUser, O!TypeOK
    <2>3. \A b \in bindings' : b \in bindings /\ b.user # u
      BY <1>11 DEF O!DeleteUser, O!BoundTo
    <2>4. UNCHANGED <<state, pc, info, target>>
      BY <1>11 DEF O!DeleteUser
    <2>5. O!BoundToLive'
      BY <2>1, <2>2, <2>3 DEF Headed, O!BoundToLive, O!TypeOK
    <2> QED
      BY <2>1, <2>2, <2>4, <2>5 DEF Headed, Bindable
  <1> QED
    BY <1>1, <1>2, <1>3, <1>4, <1>5, <1>6, <1>7, <1>8, <1>9, <1>10, <1>11 DEF O!Next

-----------------------------------------------------------------------------

\* Every step keeps the invariant.
LEMMA OAuth2StepInv == ASSUME OAuth2Inv, [O!Next]_O!vars PROVE OAuth2Inv'
  <1>1. CASE O!Next
    BY <1>1, OAuth2NextType, NextAsked, NextGone, NextHeaded DEF OAuth2Inv
  <1>2. CASE UNCHANGED O!vars
    BY <1>2 DEF OAuth2Inv, O!vars, O!TypeOK, Known, Gone, Headed, Bindable, O!BoundToLive
  <1> QED
    BY <1>1, <1>2

\* A state lets no callback through that began after another had deleted it or
\* it had expired, for any number of states and callbacks
\* (oauth2_service.login_or_binding).
THEOREM OAuth2StateSpent == O!OAuthAssumption /\ O!Spec => []O!StateSpent
  <1>1. O!OAuthAssumption /\ O!Init => OAuth2Inv
    BY OAuth2InitInv
  <1>2. OAuth2Inv /\ [O!Next]_O!vars => OAuth2Inv'
    BY OAuth2StepInv
  <1>3. OAuth2Inv => O!StateSpent
    BY DEF OAuth2Inv, Gone, O!StateSpent
  <1> QED
    BY <1>1, <1>2, <1>3, PTL DEF O!Spec

\* A bound account has a live user, or one deleted while his binding was under
\* way, for any number of users, accounts and callbacks (oauth2_service,
\* crud_user.delete).
THEOREM OAuth2BoundToLive == O!OAuthAssumption /\ O!Spec => []O!BoundToLive
  <1>1. O!OAuthAssumption /\ O!Init => OAuth2Inv
    BY OAuth2InitInv
  <1>2. OAuth2Inv /\ [O!Next]_O!vars => OAuth2Inv'
    BY OAuth2StepInv
  <1>3. OAuth2Inv => O!BoundToLive
    BY DEF OAuth2Inv, Headed
  <1> QED
    BY <1>1, <1>2, <1>3, PTL DEF O!Spec
\* The stages of a job that has the lock, and of a start.
Starting == {"scan", "clean", "parse", "write back", "order", "enable"}
Holding == {"extract", "read file", "write file", "requirements", "release"}

\* The types the argument needs.
PluginTypes ==
    /\ file = [f \in P!Files |-> file[f]]
    /\ wrote \subseteq P!Files \X Plugins
    /\ pc = [j \in Jobs |-> pc[j]] /\ snap = [j \in Jobs |-> snap[j]]
    /\ kind = [j \in Jobs |-> kind[j]] /\ about = [j \in Jobs |-> about[j]]
    /\ \A j \in Jobs : pc[j] \in {"acquire"} \cup Holding => about[j] \in Plugins

\* Whoever is past the lock has it, the marker is there, and what he read from
\* the file is still what the file holds.
Locked ==
    \A j \in Jobs :
        /\ pc[j] \in Holding => lock = j /\ marker
        /\ pc[j] = "write file" => snap[j] = file[P!FileOf(j)]

Added == \A w \in wrote : w[2] \in file[w[1]]

PluginInv == P!PluginAssumption /\ PluginTypes /\ (overrun \/ (Locked /\ Added))

-----------------------------------------------------------------------------
(* Plugins: the shared files.                                              *)

LEMMA PluginInitInv == ASSUME P!PluginAssumption, P!Init PROVE PluginInv
  <1>1. PluginTypes
    BY DEF P!Init, PluginTypes, Holding, P!Files
  <1>2. Locked /\ Added
    BY DEF P!Init, Locked, Added, Holding
  <1> QED
    BY <1>1, <1>2 DEF PluginInv

LEMMA FileOfFiles == \A j : P!FileOf(j) \in P!Files
  BY DEF P!FileOf, P!Files

\* Where a job goes, and that the others stay.
LEMMA GoesTo ==
    ASSUME PluginTypes, NEW j \in Jobs, NEW to, P!Goes(j, to)
    PROVE  pc' = [i \in Jobs |-> pc'[i]] /\ pc'[j] = to /\ \A i \in Jobs \ {j} : pc'[i] = pc[i]
  BY DEF P!Goes, PluginTypes

\* A step that touches neither the lock nor the files and takes nobody past the
\* lock.
LEMMA QuietStep ==
    ASSUME PluginTypes, overrun \/ (Locked /\ Added), UNCHANGED <<file, wrote, lock, marker, overrun>>,
           \A j \in Jobs : pc'[j] \in Holding =>
               pc[j] \in Holding /\ kind'[j] = kind[j] /\ (pc'[j] = pc[j] \/ pc'[j] # "write file"),
           \A j \in Jobs : pc'[j] = "write file" => snap'[j] = snap[j]
    PROVE  overrun' \/ (Locked' /\ Added')
  BY DEF Locked, Added, P!FileOf, Holding

\* The types, and what they need of a step.
LEMMA TypesStep ==
    ASSUME PluginTypes, file' = [f \in P!Files |-> file'[f]], wrote' \subseteq P!Files \X Plugins,
           snap' = snap \/ \E j \in Jobs : \E x : P!Reads(j, x),
           UNCHANGED kind, UNCHANGED about, NEW j \in Jobs, NEW to, P!Goes(j, to),
           to \in {"acquire"} \cup Holding => pc[j] \in {"acquire"} \cup Holding
    PROVE  PluginTypes'
  <1>1. pc' = [i \in Jobs |-> pc'[i]] /\ pc'[j] = to /\ \A i \in Jobs \ {j} : pc'[i] = pc[i]
    BY GoesTo
  <1>2. snap' = [i \in Jobs |-> snap'[i]]
    BY DEF PluginTypes, P!Reads
  <1> QED
    BY <1>1, <1>2 DEF PluginTypes

\* Past the lock, a step that leaves files, lock and marker alone.
LEMMA WorkStep ==
    ASSUME PluginTypes, overrun \/ (Locked /\ Added), NEW j \in Jobs, pc[j] \in Holding,
           NEW to, P!Goes(j, to), to # "write file", UNCHANGED <<file, wrote, lock, marker, overrun, kind, snap>>
    PROVE  overrun' \/ (Locked' /\ Added')
  BY GoesTo, QuietStep

\* Before or beside the lock.
LEMMA BesideStep ==
    ASSUME PluginTypes, overrun \/ (Locked /\ Added), NEW j \in Jobs, pc[j] \notin Holding,
           NEW to, P!Goes(j, to), to \notin Holding, UNCHANGED <<file, wrote, lock, marker, overrun>>,
           \A i \in Jobs \ {j} : kind'[i] = kind[i] /\ snap'[i] = snap[i]
    PROVE  overrun' \/ (Locked' /\ Added')
  <1>1. pc'[j] = to /\ \A i \in Jobs \ {j} : pc'[i] = pc[i]
    BY GoesTo
  <1>2. \A i \in Jobs : pc'[i] \in Holding => i # j /\ pc'[i] = pc[i] /\ kind'[i] = kind[i]
    BY <1>1
  <1>3. \A i \in Jobs : pc'[i] = "write file" => snap'[i] = snap[i]
    BY <1>1, <1>2 DEF Holding
  <1> QED
    BY <1>2, <1>3, QuietStep

LEMMA NextInv ==
    ASSUME P!PluginAssumption, PluginTypes, overrun \/ (Locked /\ Added), P!Next
    PROVE  PluginTypes' /\ (overrun' \/ (Locked' /\ Added'))
  <1>1. ASSUME NEW j \in Jobs, NEW k \in P!Kinds, NEW p \in Plugins \cup {None},
               k # "start" => p \in Plugins, P!Begin(j, k, p)
        PROVE  PluginTypes' /\ (overrun' \/ (Locked' /\ Added'))
    <2>1. \/ k \in P!Installs \cup {"generate"} /\ P!Goes(j, "acquire")
          \/ \E to \in {"remove", "read status", "scan"} : P!Goes(j, to)
      BY <1>1, Zenon DEF P!Begin, P!Kinds, P!Installs
    <2>2. /\ kind' = [kind EXCEPT ![j] = k] /\ about' = [about EXCEPT ![j] = p] /\ pc[j] = "idle"
          /\ UNCHANGED <<file, wrote, lock, marker, overrun, snap>>
      BY <1>1 DEF P!Begin, P!dirs, P!locks
    <2>3. \E to \in {"acquire", "remove", "read status", "scan"} : P!Goes(j, to)
      BY <2>1
    <2>4. PluginTypes'
      <3>1. pc'[j] = "acquire" => p \in Plugins
        BY <1>1, <2>1, GoesTo DEF P!Installs
      <3>2. pc' = [i \in Jobs |-> pc'[i]] /\ \A i \in Jobs \ {j} : pc'[i] = pc[i]
        BY <2>3, GoesTo
      <3>3. pc'[j] \notin Holding
        BY <2>3, GoesTo DEF Holding
      <3> QED
        BY <2>2, <3>1, <3>2, <3>3 DEF PluginTypes
    <2>5. \A i \in Jobs \ {j} : kind'[i] = kind[i] /\ snap'[i] = snap[i]
      BY <2>2 DEF PluginTypes
    <2>6. overrun' \/ (Locked' /\ Added')
      BY <2>2, <2>3, <2>5, BesideStep DEF Holding
    <2> QED
      BY <2>4, <2>6
  <1>2. ASSUME NEW j \in Jobs, P!AcquireDistributedReloadLock(j)
        PROVE  PluginTypes' /\ (overrun' \/ (Locked' /\ Added'))
    <2>1. /\ pc[j] = "acquire" /\ UNCHANGED <<file, wrote, overrun, kind, about, snap>>
          /\ \/ lock = None /\ lock' = j /\ marker' /\ \E to \in {"extract", "read file"} : P!Goes(j, to)
             \/ UNCHANGED <<lock, marker>> /\ P!Goes(j, "end")
      BY <1>2 DEF P!AcquireDistributedReloadLock, P!Ends, P!dirs, P!job
    <2>2. \E to \in {"extract", "read file", "end"} : P!Goes(j, to)
      BY <2>1
    <2>3. PluginTypes'
      BY <2>1, <2>2, TypesStep DEF PluginTypes
    <2>4. CASE UNCHANGED <<lock, marker>> /\ P!Goes(j, "end")
      BY <2>1, <2>3, <2>4, BesideStep DEF Holding
    <2>5. CASE lock = None /\ lock' = j /\ marker' /\ \E to \in {"extract", "read file"} : P!Goes(j, to)
      <3>1. /\ pc'[j] # "write file" /\ \A i \in Jobs \ {j} : pc'[i] = pc[i]
        BY <2>5, GoesTo
      <3>2. Locked => \A i \in Jobs : pc[i] \notin Holding
        BY <2>5 DEF Locked, P!PluginAssumption
      <3>3. Locked => Locked'
        BY <2>1, <2>5, <3>1, <3>2 DEF Locked, Holding
      <3> QED
        BY <2>1, <2>3, <3>3 DEF Added
    <2> QED
      BY <2>1, <2>3, <2>4, <2>5
  <1>3. ASSUME NEW j \in Jobs, P!Extract(j) \/ P!Clone(j) \/ P!InstallRequirements(j)
        PROVE  PluginTypes' /\ (overrun' \/ (Locked' /\ Added'))
    <2>1. pc[j] \in Holding /\ \E to \in {"release", "read file", "requirements"} : P!Goes(j, to)
      BY <1>3, Zenon DEF P!Extract, P!Clone, P!Unpacks, P!Refused, P!InstallRequirements, Holding
    <2>2. UNCHANGED <<file, wrote, lock, marker, overrun, kind, about, snap>>
      BY <1>3 DEF P!Extract, P!Clone, P!InstallRequirements, P!dirs, P!locks, P!job
    <2>3. PluginTypes'
      BY <2>1, <2>2, TypesStep DEF PluginTypes
    <2> QED
      BY <2>1, <2>2, <2>3, WorkStep
  <1>4. ASSUME NEW j \in Jobs, P!ReadFile(j) PROVE PluginTypes' /\ (overrun' \/ (Locked' /\ Added'))
    <2>1. /\ pc[j] = "read file" /\ P!Goes(j, "write file") /\ P!Reads(j, file[P!FileOf(j)])
          /\ UNCHANGED <<file, wrote, lock, marker, overrun, kind, about>>
      BY <1>4 DEF P!ReadFile, P!dirs, P!locks, P!job
    <2>2. PluginTypes'
      BY <2>1, TypesStep DEF PluginTypes, Holding
    <2>3. /\ pc'[j] = "write file" /\ snap'[j] = file[P!FileOf(j)]
          /\ \A i \in Jobs \ {j} : pc'[i] = pc[i] /\ snap'[i] = snap[i]
      BY <2>1, GoesTo DEF P!Reads, PluginTypes
    <2>4. Locked => Locked'
      BY <2>1, <2>3 DEF Locked, Holding, P!FileOf
    <2> QED
      BY <2>1, <2>2, <2>4 DEF Added
  <1>5. ASSUME NEW j \in Jobs, P!WriteFile(j) PROVE PluginTypes' /\ (overrun' \/ (Locked' /\ Added'))
    <2> DEFINE f == P!FileOf(j)
               p == about[j]
    <2>1. /\ pc[j] = "write file" /\ \E to \in {"requirements", "release"} : P!Goes(j, to)
          /\ file' = [file EXCEPT ![f] = snap[j] \cup {p}] /\ wrote' = wrote \cup {<<f, p>>}
          /\ P!Reads(j, {}) /\ UNCHANGED <<lock, marker, overrun, kind, about>>
      BY <1>5 DEF P!WriteFile, P!AddedTo, P!locks, P!job
    <2>2. f \in P!Files /\ p \in Plugins
      BY <2>1, FileOfFiles DEF PluginTypes, Holding
    <2>3. file'[f] = snap[j] \cup {p} /\ \A g \in P!Files \ {f} : file'[g] = file[g]
      BY <2>1, <2>2 DEF PluginTypes
    <2>4. file' = [g \in P!Files |-> file'[g]]
      BY <2>1 DEF PluginTypes
    <2>5. PluginTypes'
      <3>1. PICK to \in {"requirements", "release"} : P!Goes(j, to)
        BY <2>1
      <3>2. wrote' \subseteq P!Files \X Plugins
        <4>1. wrote \subseteq P!Files \X Plugins
          BY DEF PluginTypes
        <4>2. <<f, p>> \in P!Files \X Plugins
          BY <2>2
        <4> QED
          BY <2>1, <4>1, <4>2
      <3>3. pc[j] \in {"acquire"} \cup Holding
        BY <2>1 DEF Holding
      <3> QED
        BY <2>1, <2>4, <3>1, <3>2, <3>3, TypesStep
    <2>6. pc'[j] \in {"requirements", "release"} /\ \A i \in Jobs \ {j} : pc'[i] = pc[i] /\ snap'[i] = snap[i]
      BY <2>1, GoesTo DEF P!Reads, PluginTypes
    <2>7. ASSUME Locked, Added PROVE Locked' /\ Added'
      <3>1. lock = j /\ marker /\ snap[j] = file[f]
        BY <2>1, <2>7 DEF Locked, Holding
      <3>2. \A i \in Jobs \ {j} : pc'[i] \notin Holding
        BY <2>6, <2>7, <3>1 DEF Locked
      <3>3. Locked'
        BY <2>1, <2>6, <3>1, <3>2 DEF Locked, Holding
      <3>4. \A g \in P!Files : file[g] \subseteq file'[g]
        BY <2>3, <3>1
      <3>5. \A w \in wrote' : w \in wrote \/ w = <<f, p>>
        BY <2>1
      <3>6. Added'
        BY <2>2, <2>3, <2>7, <3>4, <3>5 DEF Added, PluginTypes
      <3> QED
        BY <3>3, <3>6
    <2> QED
      BY <2>1, <2>5, <2>7
  <1>6. ASSUME NEW j \in Jobs, P!Release(j) PROVE PluginTypes' /\ (overrun' \/ (Locked' /\ Added'))
    <2>1. /\ pc[j] = "release" /\ P!Goes(j, "end")
          /\ UNCHANGED <<file, wrote, overrun, kind, about, snap>>
      BY <1>6 DEF P!Release, P!Ends, P!dirs, P!job
    <2>2. PluginTypes'
      BY <2>1, TypesStep DEF PluginTypes, Holding
    <2>3. Locked => \A i \in Jobs \ {j} : pc'[i] = pc[i] /\ pc[i] \notin Holding
      BY <2>1, GoesTo DEF Locked, Holding
    <2>4. pc'[j] = "end"
      BY <2>1, GoesTo
    <2>5. Locked => Locked'
      BY <2>3, <2>4 DEF Locked, Holding
    <2> QED
      BY <2>1, <2>2, <2>5 DEF Added
  <1>7. ASSUME NEW j \in Jobs,
               \/ P!RemovePlugin(j) \/ P!ForgetPlugin(j) \/ P!ReadStatus(j) \/ P!WriteStatus(j) \/ P!TellChanged(j)
               \/ P!Started(j) \/ P!StartFails(j)
        PROVE  PluginTypes' /\ (overrun' \/ (Locked' /\ Added'))
    <2>1. UNCHANGED <<file, wrote, lock, marker, overrun, kind, about>>
      BY <1>7 DEF P!RemovePlugin, P!ForgetPlugin, P!ReadStatus, P!WriteStatus, P!TellChanged,
                  P!Started, P!StartFails, P!StartEnds, P!dirs, P!locks, P!job
    <2>2. /\ pc[j] \in {"remove", "forget", "read status", "write status", "tell"} \cup Starting
          /\ \E to \in {"forget", "tell", "write status", "end"} : P!Goes(j, to)
      BY <1>7, Zenon DEF P!RemovePlugin, P!ForgetPlugin, P!ReadStatus, P!WriteStatus, P!TellChanged,
                         P!Started, P!StartFails, P!StartEnds, P!GivesUp, P!Ends, Starting
    <2>3. snap' = snap \/ \E x : P!Reads(j, x)
      BY <1>7, Zenon
         DEF P!RemovePlugin, P!ForgetPlugin, P!ReadStatus, P!WriteStatus, P!TellChanged, P!Started,
             P!StartFails
    <2>4. PluginTypes'
      BY <2>1, <2>2, <2>3, TypesStep DEF PluginTypes, Holding, Starting
    <2>5. \A i \in Jobs \ {j} : kind'[i] = kind[i] /\ snap'[i] = snap[i]
      BY <2>1, <2>3 DEF P!Reads, PluginTypes
    <2> QED
      BY <2>1, <2>2, <2>4, <2>5, BesideStep DEF Holding, Starting
  <1>8. ASSUME NEW j \in Jobs,
               \/ P!Scan(j) \/ P!Clean(j) \/ P!WritePluginConfig(j) \/ P!ResetChanged(j)
               \/ P!BuildFinalRouter(j) \/ \E p \in Plugins : P!ReadPluginConfig(j, p)
        PROVE  PluginTypes' /\ (overrun' \/ (Locked' /\ Added'))
    <2>1. UNCHANGED <<file, wrote, lock, marker, overrun, kind, snap>>
      BY <1>8 DEF P!Scan, P!Clean, P!WritePluginConfig, P!ResetChanged, P!BuildFinalRouter,
                  P!ReadPluginConfig, P!dirs, P!locks, P!job
    <2>2. /\ pc[j] \in Starting
          /\ \E to \in {"clean", "parse", "write back", "order", "enable"} : P!Goes(j, to)
      BY <1>8, Zenon DEF P!Scan, P!Clean, P!Routed, P!WritePluginConfig, P!ResetChanged,
                         P!BuildFinalRouter, P!ReadPluginConfig, Starting
    <2>3. /\ about' = [i \in Jobs |-> about'[i]]
          /\ \A i \in Jobs \ {j} : about'[i] = about[i]
      BY <1>8 DEF P!Scan, P!Clean, P!WritePluginConfig, P!ResetChanged, P!BuildFinalRouter,
                  P!ReadPluginConfig, P!job, PluginTypes
    <2>4. /\ pc' = [i \in Jobs |-> pc'[i]] /\ pc'[j] \notin {"acquire"} \cup Holding
          /\ \A i \in Jobs \ {j} : pc'[i] = pc[i]
      BY <2>2, GoesTo DEF Holding
    <2>5. PluginTypes'
      BY <2>1, <2>3, <2>4 DEF PluginTypes
    <2> QED
      BY <2>1, <2>2, <2>5, BesideStep DEF Holding, Starting
  <1>9. ASSUME NEW p \in Plugins,
               P!LoseKey(p) \/ P!RepairPluginCache(p) \/ \E j \in Jobs : P!GetEnabledPlugins(j, p)
        PROVE  PluginTypes' /\ (overrun' \/ (Locked' /\ Added'))
    <2>1. UNCHANGED <<file, wrote, lock, marker, overrun, pc, kind, about, snap>>
      BY <1>9 DEF P!LoseKey, P!RepairPluginCache, P!GetEnabledPlugins, P!dirs, P!locks, P!job
    <2> QED
      BY <2>1, QuietStep DEF PluginTypes
  <1>10. CASE P!ExpireLock
    BY <1>10 DEF P!ExpireLock, P!dirs, P!job, PluginTypes
  <1>11. P!PluginAssumption => P!Kinds \ {"start"} \subseteq P!Kinds /\ "start" \in P!Kinds
    BY DEF P!Kinds
  <1> QED
    BY <1>1, <1>2, <1>3, <1>4, <1>5, <1>6, <1>7, <1>8, <1>9, <1>10, <1>11 DEF P!Next

\* Every step keeps the invariant.
LEMMA PluginStepInv == ASSUME PluginInv, [P!Next]_P!vars PROVE PluginInv'
  <1>1. CASE P!Next
    BY <1>1, NextInv DEF PluginInv
  <1>2. CASE UNCHANGED P!vars
    BY <1>2 DEF PluginInv, P!vars, PluginTypes, Locked, Added, P!FileOf
  <1> QED
    BY <1>1, <1>2

\* As long as the lock does not expire under its holder, every line a job added
\* to .env or to the application's router stays, for any number of jobs and
\* plugins (plugin/installer.py, code_gen_service.py, utils/locks.py).
THEOREM PluginFilesKept == P!PluginAssumption /\ P!Spec => []P!FilesKept
  <1>1. P!PluginAssumption /\ P!Init => PluginInv
    BY PluginInitInv
  <1>2. PluginInv /\ [P!Next]_P!vars => PluginInv'
    BY PluginStepInv
  <1>3. PluginInv => P!FilesKept
    BY DEF PluginInv, Locked, Added, P!FilesKept, Holding
  <1> QED
    BY <1>1, <1>2, <1>3, PTL DEF P!Spec
-----------------------------------------------------------------------------
(* Changes of plugins, and that they are announced.                        *)

\* The stages of a start that has deleted the notice.
Wiped == {"parse", "write back", "order", "enable"}

Marks == [Plugins -> P!Status \cup {"unread", "absent"}]

\* The types the argument needs; who is under way; what a job is about to write.
ToldTypes ==
    /\ cache \in [Plugins -> P!Status \cup {None}]
    /\ found \in [Jobs -> Marks]
    /\ enabled \in [Jobs -> Marks \cup {None}]
    /\ \A j \in Jobs : pc[j] = "enable" => enabled[j] \in Marks
    /\ busy = {j \in Jobs : pc[j] \notin {"idle", "end"}}
    /\ \A j \in Jobs : pc[j] = "extract" => kind[j] \in P!Installs
    /\ \A j \in Jobs : pc[j] = "write back" => about[j] \in Plugins /\ found[j][about[j]] \in P!Status

\* A process starts while no other job is under way.
Alone ==
    /\ \A j \in Jobs : pc[j] \in Starting => busy = {j}
    /\ \A j \in busy : kind[j] = "start" <=> pc[j] \in Starting

\* A job has changed the plugin, or is about to, and has yet to announce it.
Owes(j, p) ==
    /\ about[j] = p
    /\ \/ pc[j] \in {"read file", "write file", "requirements"} /\ kind[j] \in P!Installs
       \/ pc[j] \in {"forget", "tell"}

\* Whoever changed a plugin that is loaded otherwise has said so or will; but
\* between the first cleaning and the end of a start nothing is announced.
Told ==
    (\A j \in Jobs : pc[j] \notin Wiped) =>
        \A p \in Plugins \ untold : P!Current(p) = loaded[p] \/ changed \/ \E j \in Jobs : Owes(j, p)

\* A process that starts has found what is there, or has yet to read it; and what it
\* has read of the enabled plugins is so before it cleans and parses for the second time.
FoundOf(j) ==
    /\ pc[j] \in {"clean"} \cup Wiped =>
          \A p \in Plugins : found[j][p] = P!Current(p) \/ (found[j][p] = "unread" /\ p \in disk)
    /\ pc[j] = "write back" => about[j] \in disk
    /\ pc[j] = "clean" => enabled[j] = None
    /\ pc[j] = "enable" =>
          \A p \in Plugins : enabled[j][p] = P!Current(p) \/ (enabled[j][p] = "unread" /\ p \in disk)
    /\ pc[j] \in {"parse", "write back", "order"} /\ enabled[j] # None =>
          \A p \in Plugins : enabled[j][p] = P!Current(p)

Found == \A j \in Jobs : FoundOf(j)

ToldInv == ToldTypes /\ (mixed \/ (Alone /\ Told /\ Found))

-----------------------------------------------------------------------------

LEMMA ToldInit == ASSUME P!PluginAssumption, P!Init PROVE ToldInv
  <1>1. ToldTypes
    BY DEF P!Init, ToldTypes, P!Status, Marks
  <1>2. Alone /\ Found
    BY DEF P!Init, Alone, Found, FoundOf, Starting, Wiped
  <1>3. Told
    BY DEF P!Init, Told, P!Current, P!Known, P!PluginAssumption
  <1> QED
    BY <1>1, <1>2, <1>3 DEF ToldInv

\* A plugin's status is never one of the marks a starting process uses.
LEMMA KnownStatus == ASSUME ToldTypes, NEW p \in Plugins PROVE P!Known(p) \in P!Status
  <1>1. cache[p] \in P!Status \cup {None}
    BY DEF ToldTypes
  <1> QED
    BY <1>1, Zenon DEF P!Known, P!Status

\* Who is under way after a step of a job.
LEMMA BusyStep ==
    ASSUME PluginTypes, ToldTypes, NEW j \in Jobs, NEW to, P!Goes(j, to), to # "idle",
           IF to = "end" THEN busy' = busy \ {j} ELSE busy' = busy \cup {j}
    PROVE  busy' = {i \in Jobs : pc'[i] \notin {"idle", "end"}}
  <1>1. pc'[j] = to /\ \A i \in Jobs \ {j} : pc'[i] = pc[i]
    BY GoesTo
  <1> QED
    BY <1>1 DEF ToldTypes

\* A step of a job other than the start of a process.
LEMMA ToldStep ==
    ASSUME PluginTypes, ToldTypes, Alone, Told, Found, NEW j \in Jobs, NEW to, P!Goes(j, to),
           pc[j] \notin {"idle", "end"} \cup Starting, to \notin {"idle"} \cup Starting,
           busy' = IF to = "end" THEN busy \ {j} ELSE busy,
           UNCHANGED <<kind, about, found, enabled, loaded>>, changed => changed', untold \subseteq untold',
           \A p \in Plugins \ untold' :
               changed' \/ Owes(j, p)' \/ (P!Current(p)' = P!Current(p) /\ ~Owes(j, p))
    PROVE  Alone' /\ Told' /\ Found'
  <1>1. pc'[j] = to /\ \A i \in Jobs \ {j} : pc'[i] = pc[i]
    BY GoesTo
  <1>2. j \in busy
    BY DEF ToldTypes
  <1>3. \A i \in Jobs : pc[i] \notin Starting /\ pc'[i] \notin Starting
    BY <1>1, <1>2 DEF Alone
  <1>4. busy' \subseteq busy
    BY <1>2
  <1>5. Alone'
    BY <1>2, <1>3, <1>4 DEF Alone, ToldTypes
  <1>6. Found'
    BY <1>3 DEF Found, FoundOf, Starting, Wiped
  <1>7. ASSUME NEW i \in Jobs \ {j}, NEW p, Owes(i, p) PROVE Owes(i, p)'
    BY <1>1, <1>7 DEF Owes
  <1>8. Told'
    <2> SUFFICES ASSUME NEW p \in Plugins \ untold'
                 PROVE  P!Current(p)' = loaded'[p] \/ changed' \/ \E i \in Jobs : Owes(i, p)'
      BY DEF Told
    <2>1. P!Current(p) = loaded[p] \/ changed \/ \E i \in Jobs : Owes(i, p)
      BY <1>3 DEF Told, Starting, Wiped
    <2>2. CASE changed' \/ Owes(j, p)'
      BY <2>2
    <2>3. CASE P!Current(p)' = P!Current(p) /\ ~Owes(j, p)
      <3>1. CASE P!Current(p) = loaded[p]
        BY <2>3, <3>1
      <3>2. CASE changed
        BY <3>2
      <3>3. CASE \E i \in Jobs : Owes(i, p)
        <4>1. PICK i \in Jobs : Owes(i, p)
          BY <3>3
        <4>2. i # j
          BY <2>3, <4>1
        <4> QED
          BY <1>7, <4>1, <4>2
      <3> QED
        BY <2>1, <3>1, <3>2, <3>3
    <2> QED
      BY <2>2, <2>3
  <1> QED
    BY <1>5, <1>6, <1>8

\* The same, with the types.
LEMMA JobStep ==
    ASSUME PluginTypes, ToldInv, NEW j \in Jobs, NEW to, P!Goes(j, to),
           pc[j] \notin {"idle", "end"} \cup Starting, to \notin {"idle"} \cup Starting,
           to = "extract" => kind[j] \in P!Installs,
           busy' = IF to = "end" THEN busy \ {j} ELSE busy,
           cache' \in [Plugins -> P!Status \cup {None}],
           UNCHANGED <<kind, about, found, enabled, loaded, mixed>>, changed => changed', untold \subseteq untold',
           \A p \in Plugins \ untold' :
               changed' \/ Owes(j, p)' \/ (P!Current(p)' = P!Current(p) /\ ~Owes(j, p))
    PROVE  ToldInv'
  <1>1. pc'[j] = to /\ \A i \in Jobs \ {j} : pc'[i] = pc[i]
    BY GoesTo DEF ToldInv
  <1>2. j \in busy
    BY DEF ToldInv, ToldTypes
  <1>3. busy' = {i \in Jobs : pc'[i] \notin {"idle", "end"}}
    BY <1>2, BusyStep DEF ToldInv
  <1>4. ToldTypes'
    BY <1>1, <1>3 DEF ToldInv, ToldTypes, Starting
  <1>5. mixed' \/ (Alone' /\ Told' /\ Found')
    BY ToldStep DEF ToldInv
  <1> QED
    BY <1>4, <1>5 DEF ToldInv

\* A step that changes the status of no plugin, nor who is under way.
LEMMA ToldQuiet ==
    ASSUME ToldTypes, mixed \/ (Alone /\ Told /\ Found),
           UNCHANGED <<pc, kind, about, found, enabled, busy, loaded>>, changed => changed',
           cache' \in [Plugins -> P!Status \cup {None}], untold \subseteq untold', mixed => mixed',
           \A p \in Plugins \ untold' : P!Current(p)' = P!Current(p),
           (\E j \in Jobs : pc[j] \in Starting) =>
               mixed' \/ (disk' = disk /\ \A p \in Plugins : P!Known(p)' = P!Known(p))
    PROVE  ToldInv'
  <1>1. ToldTypes'
    BY DEF ToldTypes
  <1> SUFFICES ASSUME ~mixed' PROVE Alone' /\ Told' /\ Found'
    BY <1>1 DEF ToldInv
  <1>2. Alone'
    BY DEF Alone
  <1>3. \A i \in Jobs, p \in Plugins : Owes(i, p)' <=> Owes(i, p)
    BY DEF Owes
  <1>4. Told'
    BY <1>3 DEF Told
  <1>5. \A j \in Jobs : pc[j] \in Starting => disk' = disk /\ \A p \in Plugins : P!Current(p)' = P!Current(p)
    BY DEF P!Current
  <1>6. Found'
    BY <1>5 DEF Found, FoundOf, Starting, Wiped
  <1> QED
    BY <1>2, <1>4, <1>6

\* A step of a start: it is alone, or mixed.
LEMMA StartStep ==
    ASSUME PluginTypes, ToldTypes, mixed \/ Alone, NEW j \in Jobs, NEW to \in Starting \cup {"end"}, P!Goes(j, to),
           pc[j] \in Starting, kind' = kind, busy' = IF to = "end" THEN busy \ {j} ELSE busy
    PROVE  /\ pc'[j] = to /\ \A i \in Jobs \ {j} : pc'[i] = pc[i]
           /\ busy' = {i \in Jobs : pc'[i] \notin {"idle", "end"}}
           /\ \A i \in Jobs : pc'[i] = "extract" => kind'[i] \in P!Installs
           /\ ~mixed => /\ Alone'
                        /\ \A i \in Jobs \ {j} : pc[i] \in {"idle", "end"}
  <1>1. pc'[j] = to /\ \A i \in Jobs \ {j} : pc'[i] = pc[i]
    BY GoesTo
  <1>2. j \in busy
    BY DEF ToldTypes, Starting
  <1>3. busy' = {i \in Jobs : pc'[i] \notin {"idle", "end"}}
    BY <1>1, <1>2 DEF ToldTypes, Starting
  <1>4. \A i \in Jobs : pc'[i] = "extract" => kind'[i] \in P!Installs
    BY <1>1 DEF ToldTypes, Starting
  <1>5. ASSUME ~mixed PROVE Alone' /\ \A i \in Jobs \ {j} : pc[i] \in {"idle", "end"}
    <2>1. busy = {j} /\ kind[j] = "start"
      BY <1>2, <1>5 DEF Alone
    <2>2. \A i \in Jobs \ {j} : pc[i] \in {"idle", "end"}
      BY <2>1 DEF ToldTypes
    <2>3. Alone'
      BY <1>1, <2>1, <2>2 DEF Alone, Starting
    <2> QED
      BY <2>2, <2>3
  <1> QED
    BY <1>1, <1>3, <1>4, <1>5

\* What a start alone has found and read is all that is to be said of the starts.
LEMMA StartAlone ==
    ASSUME NEW j \in Jobs, \A i \in Jobs \ {j} : pc'[i] \in {"idle", "end"}, FoundOf(j)'
    PROVE  Found' /\ (pc'[j] \in Wiped => Told')
  BY DEF Found, FoundOf, Told, Wiped

LEMMA NextTold ==
    ASSUME P!PluginAssumption, PluginTypes, ToldInv, P!Next PROVE ToldInv'
  <1>t. ToldTypes
    BY DEF ToldInv
  <1>m. mixed \/ (Alone /\ Told /\ Found)
    BY DEF ToldInv
  <1>1. ASSUME NEW j \in Jobs, NEW k \in P!Kinds, NEW p \in Plugins \cup {None}, P!Begin(j, k, p)
        PROVE  ToldInv'
    <2>1. /\ kind' = [kind EXCEPT ![j] = k] /\ about' = [about EXCEPT ![j] = p] /\ pc[j] = "idle"
          /\ busy' = busy \cup {j} /\ UNCHANGED <<disk, cache, changed, loaded, found, enabled, untold>>
          /\ mixed' = (mixed \/ (busy # {} /\ "start" \in {k} \cup {kind[i] : i \in busy}))
      BY <1>1 DEF P!Begin, P!dirs, P!redis, P!locks
    <2>2. \E to \in {"acquire", "remove", "read status", "scan"} :
              P!Goes(j, to) /\ (k = "start" <=> to = "scan")
      BY <1>1, Zenon DEF P!Begin, P!Kinds, P!Installs
    <2>3. PICK to \in {"acquire", "remove", "read status", "scan"} :
              P!Goes(j, to) /\ (k = "start" <=> to = "scan")
      BY <2>2
    <2>4. pc'[j] = to /\ \A i \in Jobs \ {j} : pc'[i] = pc[i]
      BY <2>3, GoesTo
    <2>5. /\ kind'[j] = k /\ \A i \in Jobs \ {j} : kind'[i] = kind[i] /\ about'[i] = about[i]
      BY <2>1 DEF PluginTypes
    <2>6. busy' = {i \in Jobs : pc'[i] \notin {"idle", "end"}}
      BY <1>t, <2>1, <2>3, BusyStep
    <2>7. ToldTypes'
      BY <1>t, <2>1, <2>4, <2>5, <2>6 DEF ToldTypes
    <2>8. ASSUME ~mixed' PROVE Alone' /\ Told' /\ Found'
      <3>1. ~mixed /\ Alone /\ Told /\ Found
        BY <1>m, <2>1, <2>8
      <3>2. j \notin busy /\ \A i \in busy : i \in Jobs
        BY <1>t, <2>1 DEF ToldTypes
      <3>3. \A i \in busy : k # "start" /\ kind[i] # "start"
        BY <2>1, <2>8
      <3>4. \A i \in Jobs \ {j} : pc'[i] \notin Starting /\ pc[i] \notin Starting
        BY <1>t, <2>4, <3>1, <3>3 DEF Alone, ToldTypes, Starting
      <3>5. Alone'
        BY <2>1, <2>3, <2>4, <2>5, <3>1, <3>2, <3>3, <3>4 DEF Alone, Starting
      <3>6. Found'
        BY <2>4, <3>4 DEF Found, FoundOf, Starting, Wiped
      <3>7. ASSUME NEW i \in Jobs, NEW q, Owes(i, q) PROVE Owes(i, q)'
        BY <2>1, <2>4, <2>5, <3>7 DEF Owes
      <3>8. \A q \in Plugins : P!Current(q)' = P!Current(q)
        BY <2>1 DEF P!Current, P!Known
      <3>9. \A i \in Jobs : pc[i] \notin Wiped
        BY <2>1, <3>4 DEF Starting, Wiped
      <3>10. Told'
        BY <2>1, <3>1, <3>7, <3>8, <3>9 DEF Told
      <3> QED
        BY <3>5, <3>6, <3>10
    <2> QED
      BY <2>7, <2>8 DEF ToldInv
  <1>2. ASSUME NEW j \in Jobs, P!AcquireDistributedReloadLock(j) PROVE ToldInv'
    <2>1. /\ pc[j] = "acquire"
          /\ UNCHANGED <<disk, cache, changed, loaded, kind, about, found, enabled, mixed, untold>>
      BY <1>2 DEF P!AcquireDistributedReloadLock, P!dirs, P!redis, P!job, P!history
    <2>2. \E to \in {"extract", "read file", "end"} :
              /\ P!Goes(j, to)
              /\ to = "extract" <=> (to # "end" /\ kind[j] \in P!Installs)
              /\ busy' = IF to = "end" THEN busy \ {j} ELSE busy
      BY <1>2 DEF P!AcquireDistributedReloadLock, P!Ends
    <2>3. PICK to \in {"extract", "read file", "end"} :
              /\ P!Goes(j, to)
              /\ to = "extract" <=> (to # "end" /\ kind[j] \in P!Installs)
              /\ busy' = IF to = "end" THEN busy \ {j} ELSE busy
      BY <2>2
    <2>4. \A p \in Plugins : P!Current(p)' = P!Current(p) /\ ~Owes(j, p)
      BY <2>1 DEF P!Current, P!Known, Owes
    <2>5. cache' \in [Plugins -> P!Status \cup {None}]
      BY <1>t, <2>1 DEF ToldTypes
    <2> QED
      BY <2>1, <2>3, <2>4, <2>5, JobStep DEF Starting
  <1>3. ASSUME NEW j \in Jobs, P!Extract(j) \/ P!Clone(j) PROVE ToldInv'
    <2>1. /\ pc[j] = "extract" /\ kind[j] \in P!Installs
          /\ UNCHANGED <<cache, changed, loaded, kind, about, found, enabled, mixed, busy>>
      BY <1>3, <1>t DEF P!Extract, P!Clone, P!redis, P!job, ToldTypes
    <2>2. cache' \in [Plugins -> P!Status \cup {None}]
      BY <1>t, <2>1 DEF ToldTypes
    <2>3. P!Refused(j) \/ P!Unpacks(j)
      BY <1>3, Zenon DEF P!Extract, P!Clone
    <2>4. CASE P!Refused(j)
      <3>1. P!Goes(j, "release") /\ disk' = disk /\ untold' = untold
        BY <2>4 DEF P!Refused
      <3>2. \A p \in Plugins : P!Current(p)' = P!Current(p) /\ ~Owes(j, p)
        BY <2>1, <3>1 DEF P!Current, P!Known, Owes
      <3> QED
        BY <2>1, <2>2, <3>1, <3>2, JobStep DEF Starting
    <2>5. CASE P!Unpacks(j)
      <3>1. /\ disk' = disk \cup {about[j]}
            /\ \E to \in {"read file", "requirements", "release"} :
                  P!Goes(j, to) /\ IF to = "release" THEN untold' = untold \cup {about[j]} ELSE untold' = untold
        BY <2>5, Zenon DEF P!Unpacks
      <3>2. PICK to \in {"read file", "requirements", "release"} :
                P!Goes(j, to) /\ IF to = "release" THEN untold' = untold \cup {about[j]} ELSE untold' = untold
        BY <3>1
      <3>3. pc'[j] = to
        BY <3>2, GoesTo
      <3>4. \A p \in Plugins \ {about[j]} : P!Current(p)' = P!Current(p) /\ ~Owes(j, p)
        BY <2>1, <3>1 DEF P!Current, P!Known, Owes
      <3>5. to # "release" => Owes(j, about[j])'
        BY <2>1, <3>2, <3>3 DEF Owes
      <3>6. \A p \in Plugins \ untold' : Owes(j, p)' \/ (P!Current(p)' = P!Current(p) /\ ~Owes(j, p))
        BY <2>1, <3>2, <3>4, <3>5
      <3> QED
        BY <2>1, <2>2, <3>2, <3>6, JobStep DEF Starting
    <2> QED
      BY <2>3, <2>4, <2>5
  <1>4. ASSUME NEW j \in Jobs, P!ReadFile(j) \/ P!WriteFile(j) PROVE ToldInv'
    <2>1. UNCHANGED <<disk, cache, changed, loaded, kind, about, found, enabled, mixed, untold, busy>>
      BY <1>4 DEF P!ReadFile, P!WriteFile, P!dirs, P!redis, P!job, P!history
    <2>2. \/ pc[j] = "read file" /\ P!Goes(j, "write file")
          \/ pc[j] = "write file" /\ P!Goes(j, IF kind[j] \in P!Installs THEN "requirements" ELSE "release")
      BY <1>4 DEF P!ReadFile, P!WriteFile
    <2>3. PICK to \in {"write file", "requirements", "release"} :
              /\ P!Goes(j, to) /\ pc[j] \in {"read file", "write file"}
              /\ kind[j] \in P!Installs => to # "release"
      BY <2>2
    <2>4. pc'[j] = to
      BY <2>3, GoesTo
    <2>5. \A p \in Plugins : Owes(j, p)' \/ (P!Current(p)' = P!Current(p) /\ ~Owes(j, p))
      BY <2>1, <2>3, <2>4 DEF P!Current, P!Known, Owes
    <2>6. cache' \in [Plugins -> P!Status \cup {None}]
      BY <1>t, <2>1 DEF ToldTypes
    <2> QED
      BY <2>1, <2>3, <2>5, <2>6, JobStep DEF Starting
  <1>5. ASSUME NEW j \in Jobs, P!InstallRequirements(j) PROVE ToldInv'
    <2>1. /\ pc[j] = "requirements" /\ P!Goes(j, "release")
          /\ UNCHANGED <<disk, cache, loaded, kind, about, found, enabled, mixed, busy>>
          /\ (changed' /\ untold' = untold) \/ (changed' = changed /\ untold' = untold \cup {about[j]})
      BY <1>5 DEF P!InstallRequirements, P!dirs, P!job
    <2>2. \A p \in Plugins \ untold' : changed' \/ (P!Current(p)' = P!Current(p) /\ ~Owes(j, p))
      BY <2>1 DEF P!Current, P!Known, Owes
    <2>3. cache' \in [Plugins -> P!Status \cup {None}]
      BY <1>t, <2>1 DEF ToldTypes
    <2>4. (changed => changed') /\ untold \subseteq untold'
      BY <2>1
    <2> QED
      BY <2>1, <2>2, <2>3, <2>4, JobStep DEF Starting
  <1>6. ASSUME NEW j \in Jobs, P!Release(j) PROVE ToldInv'
    <2>1. /\ pc[j] = "release" /\ P!Goes(j, "end") /\ busy' = busy \ {j}
          /\ UNCHANGED <<disk, cache, changed, loaded, kind, about, found, enabled, mixed, untold>>
      BY <1>6 DEF P!Release, P!Ends, P!dirs, P!redis, P!job, P!history
    <2>2. \A p \in Plugins : P!Current(p)' = P!Current(p) /\ ~Owes(j, p)
      BY <2>1 DEF P!Current, P!Known, Owes
    <2>3. cache' \in [Plugins -> P!Status \cup {None}]
      BY <1>t, <2>1 DEF ToldTypes
    <2> QED
      BY <2>1, <2>2, <2>3, JobStep DEF Starting
  <1>7. ASSUME NEW j \in Jobs,
               P!RemovePlugin(j) \/ P!ForgetPlugin(j) \/ P!WriteStatus(j) \/ P!TellChanged(j)
        PROVE  ToldInv'
    <2>1. /\ pc[j] \in {"remove", "forget", "write status", "tell"}
          /\ UNCHANGED <<loaded, kind, about, found, enabled, mixed>>
      BY <1>7 DEF P!RemovePlugin, P!ForgetPlugin, P!WriteStatus, P!TellChanged, P!redis, P!job, P!history
    <2>2. /\ changed => changed'
          /\ \/ /\ \E to \in {"forget", "tell"} : P!Goes(j, to)
                /\ busy' = busy /\ untold' = untold
             \/ changed' /\ P!Goes(j, "end") /\ busy' = busy \ {j} /\ untold' = untold
             \/ P!Goes(j, "end") /\ busy' = busy \ {j} /\ untold' = untold \cup {about[j]}
      <3>1. CASE P!RemovePlugin(j)
        BY <3>1, Zenon DEF P!RemovePlugin, P!GivesUp, P!Ends, P!redis
      <3>2. CASE P!ForgetPlugin(j)
        BY <3>2, Zenon DEF P!ForgetPlugin, P!GivesUp, P!Ends
      <3>3. CASE P!WriteStatus(j)
        BY <3>3, Zenon DEF P!WriteStatus, P!history
      <3>4. CASE P!TellChanged(j)
        <4>1. /\ changed' = TRUE \/ changed' = changed
              /\ \/ changed' = TRUE /\ P!Ends(j) /\ untold' = untold
                 \/ P!GivesUp(j)
          BY <3>4 DEF P!TellChanged
        <4> QED
          BY <4>1 DEF P!GivesUp, P!Ends
      <3> QED
        BY <1>7, <3>1, <3>2, <3>3, <3>4
    <2>3. PICK to \in {"forget", "tell", "end"} :
              /\ P!Goes(j, to)
              /\ busy' = IF to = "end" THEN busy \ {j} ELSE busy
              /\ untold \subseteq untold'
              /\ to = "end" => changed' \/ about[j] \in untold'
      BY <2>2
    <2>4. pc'[j] = to
      BY <2>3, GoesTo
    <2>5. cache' \in [Plugins -> P!Status \cup {None}]
      BY <1>7, <1>t DEF P!RemovePlugin, P!ForgetPlugin, P!WriteStatus, P!TellChanged, P!redis, P!Status,
         ToldTypes
    <2>6. \A p \in Plugins : p # about[j] => cache'[p] = cache[p] /\ (p \in disk' <=> p \in disk)
      BY <1>7, <1>t DEF P!RemovePlugin, P!ForgetPlugin, P!WriteStatus, P!TellChanged, P!redis, P!dirs, ToldTypes
    <2>7. \A p \in Plugins : p # about[j] => P!Current(p)' = P!Current(p) /\ ~Owes(j, p)
      BY <2>6 DEF P!Current, P!Known, Owes
    <2>8. to # "end" => Owes(j, about[j])'
      BY <2>1, <2>3, <2>4 DEF Owes
    <2>9. \A p \in Plugins \ untold' :
              changed' \/ Owes(j, p)' \/ (P!Current(p)' = P!Current(p) /\ ~Owes(j, p))
      BY <2>1, <2>3, <2>7, <2>8
    <2> QED
      BY <2>1, <2>2, <2>3, <2>5, <2>9, JobStep DEF Starting
  <1>8. ASSUME NEW j \in Jobs, P!ReadStatus(j) PROVE ToldInv'
    <2>1. /\ pc[j] = "read status"
          /\ UNCHANGED <<disk, cache, changed, loaded, kind, about, found, enabled, mixed, untold>>
      BY <1>8 DEF P!ReadStatus, P!dirs, P!redis, P!job, P!history
    <2>2. PICK to \in {"end", "write status"} :
              P!Goes(j, to) /\ busy' = IF to = "end" THEN busy \ {j} ELSE busy
      BY <1>8 DEF P!ReadStatus, P!Ends
    <2>3. \A p \in Plugins : P!Current(p)' = P!Current(p) /\ ~Owes(j, p)
      BY <2>1 DEF P!Current, P!Known, Owes
    <2>4. cache' \in [Plugins -> P!Status \cup {None}]
      BY <1>t, <2>1 DEF ToldTypes
    <2> QED
      BY <2>1, <2>2, <2>3, <2>4, JobStep DEF Starting
  <1>9. ASSUME NEW j \in Jobs, P!Scan(j) PROVE ToldInv'
    <2> DEFINE list == [p \in Plugins |-> IF p \in disk THEN "unread" ELSE "absent"]
    <2>1. /\ pc[j] = "scan" /\ P!Goes(j, "clean")
          /\ found' = [found EXCEPT ![j] = list] /\ enabled' = [enabled EXCEPT ![j] = None]
          /\ UNCHANGED <<disk, cache, changed, loaded, kind, about, mixed, untold, busy>>
      BY <1>9 DEF P!Scan, P!Finds, P!dirs, P!redis, P!history
    <2>2. /\ pc'[j] = "clean" /\ \A i \in Jobs \ {j} : pc'[i] = pc[i]
          /\ busy' = {i \in Jobs : pc'[i] \notin {"idle", "end"}}
          /\ \A i \in Jobs : pc'[i] = "extract" => kind'[i] \in P!Installs
          /\ ~mixed => Alone' /\ \A i \in Jobs \ {j} : pc[i] \in {"idle", "end"}
      BY <1>t, <1>m, <2>1, StartStep DEF Starting
    <2>3. list \in Marks
      BY DEF Marks
    <2>4. /\ found' \in [Jobs -> Marks] /\ enabled' \in [Jobs -> Marks \cup {None}]
          /\ found'[j] = list /\ enabled'[j] = None
          /\ \A i \in Jobs \ {j} : found'[i] = found[i] /\ enabled'[i] = enabled[i]
      <3> HIDE DEF list
      <3> QED
        BY <1>t, <2>1, <2>3 DEF ToldTypes
    <2> HIDE DEF list
    <2>5. ToldTypes'
      BY <1>t, <2>1, <2>2, <2>4 DEF ToldTypes
    <2>6. ASSUME ~mixed PROVE Found' /\ Told'
      <3>1. \A p \in Plugins : found'[j][p] = P!Current(p)' \/ (found'[j][p] = "unread" /\ p \in disk')
        BY <2>1, <2>4 DEF P!Current, list
      <3>2. FoundOf(j)'
        BY <2>2, <2>4, <3>1 DEF FoundOf, Wiped
      <3>3. Found'
        BY <2>2, <2>6, <3>2, StartAlone
      <3>4. \A i \in Jobs, p \in Plugins : (Owes(i, p) => Owes(i, p)') /\ P!Current(p)' = P!Current(p)
        BY <2>1, <2>2 DEF Owes, P!Current, P!Known
      <3>5. \A i \in Jobs : pc[i] \notin Wiped
        BY <2>1, <2>2, <2>6 DEF Wiped
      <3>6. Told
        BY <1>m, <2>6
      <3>7. Told'
        BY <2>1, <3>4, <3>5, <3>6 DEF Told
      <3> QED
        BY <3>3, <3>7
    <2> QED
      BY <2>1, <2>2, <2>5, <2>6 DEF ToldInv
  <1>10. ASSUME NEW j \in Jobs, P!Clean(j) PROVE ToldInv'
    <2> DEFINE list == [p \in Plugins |-> IF p \in P!Listed(j) THEN "unread" ELSE "absent"]
    <2>1. /\ pc[j] = "clean" \/ (pc[j] = "enable" /\ \A p \in Plugins : enabled[j][p] # "unread")
          /\ P!Goes(j, "parse")
          /\ cache' = [p \in Plugins |-> IF p \in P!Listed(j) THEN cache[p] ELSE None]
          /\ found' = [found EXCEPT ![j] = list]
          /\ UNCHANGED <<disk, loaded, kind, about, enabled, mixed, untold, busy>>
      BY <1>10 DEF P!Clean, P!Routed, P!Finds, P!dirs, P!history
    <2>2. /\ pc'[j] = "parse" /\ \A i \in Jobs \ {j} : pc'[i] = pc[i]
          /\ busy' = {i \in Jobs : pc'[i] \notin {"idle", "end"}}
          /\ \A i \in Jobs : pc'[i] = "extract" => kind'[i] \in P!Installs
          /\ ~mixed => Alone' /\ \A i \in Jobs \ {j} : pc[i] \in {"idle", "end"}
      BY <1>t, <1>m, <2>1, StartStep DEF Starting
    <2>3. list \in Marks
      BY DEF Marks
    <2>4. /\ found' \in [Jobs -> Marks] /\ found'[j] = list
          /\ \A i \in Jobs \ {j} : found'[i] = found[i]
      <3> HIDE DEF list
      <3> QED
        BY <1>t, <2>1, <2>3 DEF ToldTypes
    <2>5. cache' \in [Plugins -> P!Status \cup {None}]
      BY <1>t, <2>1 DEF ToldTypes
    <2> HIDE DEF list
    <2>6. ToldTypes'
      BY <1>t, <2>1, <2>2, <2>4, <2>5 DEF ToldTypes
    <2>7. ASSUME ~mixed PROVE Found' /\ Told'
      <3>1. FoundOf(j)
        BY <1>m, <2>7 DEF Found
      <3>2. \A p \in Plugins : p \in P!Listed(j) <=> p \in disk
        <4>1. \A p \in Plugins : found[j][p] = P!Current(p) \/ (found[j][p] = "unread" /\ p \in disk)
          BY <2>1, <3>1 DEF FoundOf, Wiped
        <4>2. \A p \in Plugins : P!Known(p) # "absent"
          BY <1>t, KnownStatus DEF P!Status
        <4> QED
          BY <4>1, <4>2 DEF P!Listed, P!Current
      <3>3. \A p \in Plugins : P!Current(p)' = P!Current(p)
        <4>1. \A p \in Plugins : p \in disk => cache'[p] = cache[p]
          BY <2>1, <3>2
        <4> QED
          BY <2>1, <4>1 DEF P!Current, P!Known
      <3>4. \A p \in Plugins : found'[j][p] = P!Current(p)' \/ (found'[j][p] = "unread" /\ p \in disk')
        BY <2>1, <2>4, <3>2 DEF P!Current, list
      <3>5. enabled[j] # None => \A p \in Plugins : enabled[j][p] = P!Current(p)
        BY <2>1, <3>1 DEF FoundOf
      <3>6. FoundOf(j)'
        BY <2>1, <2>2, <3>3, <3>4, <3>5 DEF FoundOf, Wiped
      <3> QED
        BY <2>2, <2>7, <3>6, StartAlone DEF Wiped
    <2> QED
      BY <2>1, <2>2, <2>6, <2>7 DEF ToldInv
  <1>11. ASSUME NEW j \in Jobs, NEW p \in Plugins, P!ReadPluginConfig(j, p) PROVE ToldInv'
    <2> DEFINE now == [found[j] EXCEPT ![p] = P!Known(p)]
    <2>1. /\ pc[j] = "parse" /\ P!Goes(j, "write back") /\ found[j][p] = "unread"
          /\ found' = [found EXCEPT ![j] = now]
          /\ about' = [about EXCEPT ![j] = p]
          /\ UNCHANGED <<disk, cache, loaded, kind, enabled, mixed, busy>>
      BY <1>11 DEF P!ReadPluginConfig, P!Finds, P!dirs, P!redis, P!history
    <2>2. /\ pc'[j] = "write back" /\ \A i \in Jobs \ {j} : pc'[i] = pc[i]
          /\ busy' = {i \in Jobs : pc'[i] \notin {"idle", "end"}}
          /\ \A i \in Jobs : pc'[i] = "extract" => kind'[i] \in P!Installs
          /\ ~mixed => Alone' /\ \A i \in Jobs \ {j} : pc[i] \in {"idle", "end"}
      BY <1>t, <1>m, <2>1, StartStep DEF Starting
    <2>3. P!Known(p) \in P!Status
      BY <1>t, KnownStatus
    <2>4. /\ now \in Marks /\ now[p] = P!Known(p)
          /\ \A q \in Plugins \ {p} : now[q] = found[j][q]
      BY <1>t, <2>3 DEF ToldTypes, Marks
    <2>5. /\ found' \in [Jobs -> Marks] /\ found'[j] = now
          /\ \A i \in Jobs \ {j} : found'[i] = found[i]
      <3> HIDE DEF now
      <3> QED
        BY <1>t, <2>1, <2>4 DEF ToldTypes
    <2> HIDE DEF now
    <2>6. about'[j] = p /\ \A i \in Jobs \ {j} : about'[i] = about[i]
      BY <2>1 DEF PluginTypes
    <2>7. ToldTypes'
      <3>1. about'[j] \in Plugins /\ found'[j][about'[j]] \in P!Status
        BY <2>3, <2>4, <2>5, <2>6
      <3>2. \A i \in Jobs \ {j} :
                pc'[i] = "write back" => about'[i] \in Plugins /\ found'[i][about'[i]] \in P!Status
        BY <1>t, <2>2, <2>5, <2>6 DEF ToldTypes
      <3>3. cache' \in [Plugins -> P!Status \cup {None}] /\ enabled' \in [Jobs -> Marks \cup {None}]
        BY <1>t, <2>1 DEF ToldTypes
      <3>4. \A i \in Jobs : pc'[i] = "enable" => enabled'[i] \in Marks
        BY <1>t, <2>1, <2>2 DEF ToldTypes
      <3> QED
        BY <2>2, <2>5, <3>1, <3>2, <3>3, <3>4 DEF ToldTypes
    <2>8. ASSUME ~mixed PROVE Found' /\ Told'
      <3>1. FoundOf(j)
        BY <1>m, <2>8 DEF Found
      <3>2. p \in disk
        <4>1. found[j][p] = P!Current(p) \/ p \in disk
          BY <2>1, <3>1 DEF FoundOf, Wiped
        <4> QED
          BY <2>1, <4>1 DEF P!Current
      <3>3. \A q \in Plugins : P!Current(q)' = P!Current(q)
        BY <2>1 DEF P!Current, P!Known
      <3>4. now[p] = P!Current(p)
        BY <2>4, <3>2 DEF P!Current
      <3>5. \A q \in Plugins : found'[j][q] = P!Current(q)' \/ (found'[j][q] = "unread" /\ q \in disk')
        BY <2>1, <2>4, <2>5, <3>1, <3>3, <3>4 DEF FoundOf, Wiped
      <3>6. enabled'[j] # None => \A q \in Plugins : enabled'[j][q] = P!Current(q)'
        BY <2>1, <3>1, <3>3 DEF FoundOf
      <3>7. FoundOf(j)'
        <4>1. disk' = disk
          BY <2>1
        <4>2. about'[j] \in disk'
          BY <2>6, <3>2, <4>1
        <4> QED
          BY <2>2, <3>5, <3>6, <4>2 DEF FoundOf
      <3> QED
        BY <2>2, <2>8, <3>7, StartAlone DEF Wiped
    <2> QED
      BY <2>1, <2>2, <2>7, <2>8 DEF ToldInv
  <1>12. ASSUME NEW j \in Jobs, P!WritePluginConfig(j) PROVE ToldInv'
    <2>1. /\ pc[j] = "write back" /\ P!Goes(j, "parse")
          /\ cache' = [cache EXCEPT ![about[j]] = found[j][about[j]]]
          /\ UNCHANGED <<disk, changed, loaded, kind, about, found, enabled, mixed, untold, busy>>
      BY <1>12 DEF P!WritePluginConfig, P!dirs, P!job, P!history
    <2>2. /\ pc'[j] = "parse" /\ \A i \in Jobs \ {j} : pc'[i] = pc[i]
          /\ busy' = {i \in Jobs : pc'[i] \notin {"idle", "end"}}
          /\ \A i \in Jobs : pc'[i] = "extract" => kind'[i] \in P!Installs
          /\ ~mixed => Alone' /\ \A i \in Jobs \ {j} : pc[i] \in {"idle", "end"}
      BY <1>t, <1>m, <2>1, StartStep DEF Starting
    <2>3. about[j] \in Plugins /\ found[j][about[j]] \in P!Status
      BY <1>t, <2>1 DEF ToldTypes
    <2>4. cache' \in [Plugins -> P!Status \cup {None}]
      BY <1>t, <2>1, <2>3 DEF ToldTypes
    <2>5. ToldTypes'
      BY <1>t, <2>1, <2>2, <2>4 DEF ToldTypes
    <2>6. ASSUME ~mixed PROVE Found' /\ Told'
      <3>1. FoundOf(j)
        BY <1>m, <2>6 DEF Found
      <3>2. about[j] \in disk
        BY <2>1, <3>1 DEF FoundOf
      <3>3. found[j][about[j]] = P!Known(about[j])
        BY <2>1, <2>3, <3>1, <3>2 DEF FoundOf, Wiped, P!Current, P!Status
      <3>4. \A p \in Plugins : P!Known(p)' = P!Known(p)
        <4>1. \A p \in Plugins : p = about[j] => P!Known(p)' = P!Known(p)
          BY <1>t, <2>1, <2>3, <3>3 DEF P!Known, ToldTypes
        <4>2. \A p \in Plugins \ {about[j]} : cache'[p] = cache[p]
          BY <1>t, <2>1 DEF ToldTypes
        <4>3. \A p \in Plugins \ {about[j]} : P!Known(p)' = P!Known(p)
          BY <4>2 DEF P!Known
        <4> QED
          BY <4>1, <4>3
      <3>5. \A p \in Plugins : P!Current(p)' = P!Current(p)
        BY <2>1, <3>4 DEF P!Current
      <3>6. FoundOf(j)'
        BY <2>1, <2>2, <3>1, <3>5 DEF FoundOf, Wiped
      <3> QED
        BY <2>2, <2>6, <3>6, StartAlone DEF Wiped
    <2> QED
      BY <2>1, <2>2, <2>5, <2>6 DEF ToldInv
  <1>13. ASSUME NEW j \in Jobs, P!ResetChanged(j) PROVE ToldInv'
    <2>1. /\ pc[j] = "parse" /\ P!Goes(j, "order")
          /\ UNCHANGED <<disk, cache, loaded, kind, about, found, enabled, mixed, untold, busy>>
      BY <1>13 DEF P!ResetChanged, P!dirs, P!job, P!history
    <2>2. /\ pc'[j] = "order" /\ \A i \in Jobs \ {j} : pc'[i] = pc[i]
          /\ busy' = {i \in Jobs : pc'[i] \notin {"idle", "end"}}
          /\ \A i \in Jobs : pc'[i] = "extract" => kind'[i] \in P!Installs
          /\ ~mixed => Alone' /\ \A i \in Jobs \ {j} : pc[i] \in {"idle", "end"}
      BY <1>t, <1>m, <2>1, StartStep DEF Starting
    <2>3. ToldTypes'
      BY <1>t, <2>1, <2>2 DEF ToldTypes
    <2>4. ASSUME ~mixed PROVE Found' /\ Told'
      <3>1. FoundOf(j)
        BY <1>m, <2>4 DEF Found
      <3>2. \A p \in Plugins : P!Current(p)' = P!Current(p)
        BY <2>1 DEF P!Current, P!Known
      <3>3. FoundOf(j)'
        BY <2>1, <2>2, <3>1, <3>2 DEF FoundOf, Wiped
      <3> QED
        BY <2>2, <2>4, <3>3, StartAlone DEF Wiped
    <2> QED
      BY <2>1, <2>2, <2>3, <2>4 DEF ToldInv
  <1>14. ASSUME NEW j \in Jobs, P!BuildFinalRouter(j) PROVE ToldInv'
    <2> DEFINE list == [p \in Plugins |-> IF p \in P!Listed(j) THEN "unread" ELSE "absent"]
    <2>1. /\ pc[j] = "order" /\ P!Goes(j, "enable")
          /\ enabled' = [enabled EXCEPT ![j] = list]
          /\ UNCHANGED <<disk, cache, loaded, kind, about, found, mixed, untold, busy>>
      BY <1>14 DEF P!BuildFinalRouter, P!dirs, P!redis, P!history
    <2>2. /\ pc'[j] = "enable" /\ \A i \in Jobs \ {j} : pc'[i] = pc[i]
          /\ busy' = {i \in Jobs : pc'[i] \notin {"idle", "end"}}
          /\ \A i \in Jobs : pc'[i] = "extract" => kind'[i] \in P!Installs
          /\ ~mixed => Alone' /\ \A i \in Jobs \ {j} : pc[i] \in {"idle", "end"}
      BY <1>t, <1>m, <2>1, StartStep DEF Starting
    <2>3. list \in Marks
      BY DEF Marks
    <2>4. /\ enabled' \in [Jobs -> Marks \cup {None}] /\ enabled'[j] = list
          /\ \A i \in Jobs \ {j} : enabled'[i] = enabled[i]
      <3> HIDE DEF list
      <3> QED
        BY <1>t, <2>1, <2>3 DEF ToldTypes
    <2> HIDE DEF list
    <2>5. ToldTypes'
      BY <1>t, <2>1, <2>2, <2>3, <2>4 DEF ToldTypes
    <2>6. ASSUME ~mixed PROVE Found' /\ Told'
      <3>1. FoundOf(j)
        BY <1>m, <2>6 DEF Found
      <3>2. \A p \in Plugins : P!Current(p)' = P!Current(p)
        BY <2>1 DEF P!Current, P!Known
      <3>3. \A p \in Plugins : found[j][p] = P!Current(p) \/ (found[j][p] = "unread" /\ p \in disk)
        BY <2>1, <3>1 DEF FoundOf, Wiped
      <3>4. \A p \in Plugins : p \in P!Listed(j) <=> p \in disk
        <4>1. \A p \in Plugins : P!Known(p) # "absent"
          BY <1>t, KnownStatus DEF P!Status
        <4> QED
          BY <3>3, <4>1 DEF P!Listed, P!Current
      <3>5. \A p \in Plugins : enabled'[j][p] = P!Current(p)' \/ (enabled'[j][p] = "unread" /\ p \in disk')
        BY <2>1, <2>4, <3>4 DEF P!Current, list
      <3>6. FoundOf(j)'
        BY <2>1, <2>2, <3>2, <3>3, <3>5 DEF FoundOf, Wiped
      <3> QED
        BY <2>2, <2>6, <3>6, StartAlone DEF Wiped
    <2> QED
      BY <2>1, <2>2, <2>5, <2>6 DEF ToldInv
  <1>15. ASSUME NEW j \in Jobs, NEW p \in Plugins, P!GetEnabledPlugins(j, p) PROVE ToldInv'
    <2> DEFINE now == [enabled[j] EXCEPT ![p] = P!Known(p)]
    <2>1. /\ pc[j] = "enable" /\ enabled[j][p] = "unread"
          /\ enabled' = [enabled EXCEPT ![j] = now]
          /\ UNCHANGED <<disk, cache, loaded, pc, kind, about, found, mixed, untold, busy>>
      BY <1>15 DEF P!GetEnabledPlugins, P!dirs, P!redis, P!history
    <2>2. P!Known(p) \in P!Status /\ enabled[j] \in Marks
      BY <1>t, <2>1, KnownStatus DEF ToldTypes
    <2>3. /\ now \in Marks /\ now[p] = P!Known(p)
          /\ \A q \in Plugins \ {p} : now[q] = enabled[j][q]
      BY <2>2 DEF Marks
    <2>4. /\ enabled' \in [Jobs -> Marks \cup {None}] /\ enabled'[j] = now
          /\ \A i \in Jobs \ {j} : enabled'[i] = enabled[i]
      <3> HIDE DEF now
      <3> QED
        BY <1>t, <2>1, <2>3 DEF ToldTypes
    <2> HIDE DEF now
    <2>5. ToldTypes'
      BY <1>t, <2>1, <2>3, <2>4 DEF ToldTypes
    <2>6. ASSUME ~mixed PROVE Alone' /\ Found' /\ Told'
      <3>1. FoundOf(j) /\ Alone
        BY <1>m, <2>6 DEF Found
      <3>2. \A i \in Jobs \ {j} : pc[i] \in {"idle", "end"}
        BY <1>t, <2>1, <3>1 DEF Alone, Starting, ToldTypes
      <3>3. \A q \in Plugins : P!Current(q)' = P!Current(q)
        BY <2>1 DEF P!Current, P!Known
      <3>4. \A q \in Plugins : enabled[j][q] = P!Current(q) \/ (enabled[j][q] = "unread" /\ q \in disk)
        BY <2>1, <3>1 DEF FoundOf
      <3>5. now[p] = P!Current(p)
        BY <2>1, <2>3, <3>4 DEF P!Current
      <3>6. \A q \in Plugins : enabled'[j][q] = P!Current(q)' \/ (enabled'[j][q] = "unread" /\ q \in disk')
        BY <2>1, <2>3, <2>4, <3>3, <3>4, <3>5
      <3>7. FoundOf(j)'
        BY <2>1, <3>1, <3>3, <3>6 DEF FoundOf, Wiped
      <3>8. Alone'
        BY <2>1, <3>1 DEF Alone
      <3> QED
        BY <2>1, <3>2, <3>7, <3>8, StartAlone DEF Wiped
    <2> QED
      BY <2>1, <2>5, <2>6 DEF ToldInv
  <1>16. ASSUME NEW j \in Jobs, P!Started(j) \/ P!StartFails(j) PROVE ToldInv'
    <2> DEFINE nothing == [p \in Plugins |-> "absent"]
    <2>1. /\ pc[j] \in Starting /\ P!Goes(j, "end") /\ busy' = busy \ {j}
          /\ found' = [found EXCEPT ![j] = nothing] /\ enabled' = [enabled EXCEPT ![j] = None]
          /\ UNCHANGED <<disk, cache, changed, kind, about, mixed>>
      BY <1>16 DEF P!Started, P!StartFails, P!StartEnds, P!Finds, P!Ends, P!dirs, P!redis, Starting
    <2>2. /\ pc'[j] = "end" /\ \A i \in Jobs \ {j} : pc'[i] = pc[i]
          /\ busy' = {i \in Jobs : pc'[i] \notin {"idle", "end"}}
          /\ \A i \in Jobs : pc'[i] = "extract" => kind'[i] \in P!Installs
          /\ ~mixed => Alone' /\ \A i \in Jobs \ {j} : pc[i] \in {"idle", "end"}
      BY <1>t, <1>m, <2>1, StartStep
    <2>3. nothing \in Marks
      BY DEF Marks
    <2>4. /\ found' \in [Jobs -> Marks] /\ enabled' \in [Jobs -> Marks \cup {None}]
          /\ \A i \in Jobs \ {j} : found'[i] = found[i] /\ enabled'[i] = enabled[i]
      <3> HIDE DEF nothing
      <3> QED
        BY <1>t, <2>1, <2>3 DEF ToldTypes
    <2> HIDE DEF nothing
    <2>5. ToldTypes'
      BY <1>t, <2>1, <2>2, <2>4 DEF ToldTypes
    <2>6. ASSUME ~mixed PROVE Found' /\ Told'
      <3>1. FoundOf(j)
        BY <1>m, <2>6 DEF Found
      <3>2. Found'
        BY <2>2, <2>6 DEF Found, FoundOf, Wiped
      <3>3. \A p \in Plugins : P!Current(p)' = P!Current(p)
        BY <2>1 DEF P!Current, P!Known
      <3>4. CASE P!Started(j)
        <4>1. pc[j] = "order" /\ enabled[j] # None /\ loaded' = enabled[j]
          BY <3>4 DEF P!Started
        <4>2. \A p \in Plugins : P!Current(p)' = loaded'[p]
          BY <3>1, <3>3, <4>1 DEF FoundOf
        <4> QED
          BY <3>2, <4>2 DEF Told
      <3>5. CASE P!StartFails(j) /\ pc[j] \in {"scan", "clean"}
        <4>1. loaded' = loaded /\ untold' = untold
          BY <3>5 DEF P!StartFails
        <4>2. \A i \in Jobs : pc[i] \notin Wiped
          BY <2>2, <2>6, <3>5 DEF Wiped
        <4>3. \A i \in Jobs, p \in Plugins : Owes(i, p) => Owes(i, p)'
          BY <2>1, <2>2, <3>5 DEF Owes
        <4>4. Told
          BY <1>m, <2>6
        <4>5. Told'
          BY <2>1, <3>3, <4>1, <4>2, <4>3, <4>4 DEF Told
        <4> QED
          BY <3>2, <4>5
      <3>6. CASE P!StartFails(j) /\ pc[j] \notin {"scan", "clean"}
        <4>1. loaded' = loaded /\ untold' = untold \cup {p \in Plugins : P!Current(p) # loaded[p]}
          BY <3>6 DEF P!StartFails
        <4>2. \A p \in Plugins \ untold' : P!Current(p)' = loaded'[p]
          BY <3>3, <4>1
        <4> QED
          BY <3>2, <4>2 DEF Told
      <3> QED
        BY <1>16, <3>4, <3>5, <3>6
    <2> QED
      BY <2>1, <2>2, <2>5, <2>6 DEF ToldInv
  <1>17. ASSUME NEW p \in Plugins, P!LoseKey(p) PROVE ToldInv'
    <2>1. /\ cache' = [cache EXCEPT ![p] = None] /\ untold' = untold \cup {p}
          /\ mixed' = (mixed \/ \E j \in busy : kind[j] = "start")
          /\ UNCHANGED <<disk, changed, loaded, pc, kind, about, found, enabled, busy>>
      BY <1>17 DEF P!LoseKey, P!dirs, P!job
    <2>2. cache' \in [Plugins -> P!Status \cup {None}]
      BY <1>t, <2>1 DEF ToldTypes
    <2>3. \A q \in Plugins \ untold' : P!Current(q)' = P!Current(q)
      BY <1>t, <2>1 DEF P!Current, P!Known, ToldTypes
    <2>4. (\E j \in Jobs : pc[j] \in Starting) => mixed'
      BY <1>m, <1>t, <2>1 DEF Alone, Starting, ToldTypes
    <2> QED
      BY <1>m, <1>t, <2>1, <2>2, <2>3, <2>4, ToldQuiet
  <1>18. ASSUME NEW p \in Plugins, P!RepairPluginCache(p) PROVE ToldInv'
    <2>1. /\ cache' = [cache EXCEPT ![p] = "on"] /\ cache[p] = None
          /\ UNCHANGED <<disk, changed, loaded, pc, kind, about, found, enabled, busy, mixed, untold>>
      BY <1>18 DEF P!RepairPluginCache, P!dirs, P!job, P!history
    <2>2. cache' \in [Plugins -> P!Status \cup {None}]
      BY <1>t, <2>1 DEF ToldTypes, P!Status
    <2>3. \A q \in Plugins : P!Known(q)' = P!Known(q)
      BY <1>t, <2>1 DEF P!Known, ToldTypes
    <2>4. \A q \in Plugins : P!Current(q)' = P!Current(q)
      BY <2>1, <2>3 DEF P!Current
    <2> QED
      BY <1>m, <1>t, <2>1, <2>2, <2>3, <2>4, ToldQuiet
  <1>19. CASE P!ExpireLock
    BY <1>19, <1>t, <1>m, ToldQuiet DEF P!ExpireLock, P!dirs, P!redis, P!job, P!history, ToldTypes,
       P!Current, P!Known
  <1>20. P!Kinds \ {"start"} \subseteq P!Kinds /\ "start" \in P!Kinds
    BY DEF P!Kinds
  <1> QED
    BY <1>1, <1>2, <1>3, <1>4, <1>5, <1>6, <1>7, <1>8, <1>9, <1>10, <1>11, <1>12, <1>13, <1>14,
       <1>15, <1>16, <1>17, <1>18, <1>19, <1>20 DEF P!Next

\* A change of a plugin that a process starting now would load is announced,
\* for any number of jobs and plugins (plugin/installer.py, plugin/core.py,
\* plugin/status.py, plugin_service.py).
THEOREM PluginChangesTold == P!PluginAssumption /\ P!Spec => []P!ChangesTold
  <1>1. P!PluginAssumption /\ P!Init => PluginInv /\ ToldInv
    BY PluginInitInv, ToldInit
  <1>2. PluginInv /\ ToldInv /\ [P!Next]_P!vars => (PluginInv /\ ToldInv)'
    <2> SUFFICES ASSUME PluginInv, ToldInv, [P!Next]_P!vars PROVE (PluginInv /\ ToldInv)'
      OBVIOUS
    <2>1. PluginInv'
      BY PluginStepInv
    <2>2. CASE P!Next
      BY <2>1, <2>2, NextTold DEF PluginInv
    <2>3. CASE UNCHANGED P!vars
      <3>1. UNCHANGED <<disk, cache, changed, loaded, pc, kind, about, found, enabled, busy, mixed, untold>>
        BY <2>3 DEF P!vars
      <3>2. \A p \in Plugins : P!Known(p)' = P!Known(p) /\ P!Current(p)' = P!Current(p)
        BY <3>1 DEF P!Known, P!Current
      <3>3. ToldInv'
        BY <3>1, <3>2, ToldQuiet DEF ToldInv, ToldTypes
      <3> QED
        BY <2>1, <3>3
    <2> QED
      BY <2>2, <2>3
  <1>3. ToldInv => P!ChangesTold
    <2> SUFFICES ASSUME ToldInv, busy = {}, ~mixed, ~changed, NEW p \in Plugins \ untold
                 PROVE  P!Current(p) = loaded[p]
      BY DEF P!ChangesTold, P!Current
    <2>1. \A j \in Jobs : pc[j] \in {"idle", "end"}
      BY DEF ToldInv, ToldTypes
    <2> QED
      BY <2>1 DEF ToldInv, Told, Owes, Wiped
  <1> QED
    BY <1>1, <1>2, <1>3, PTL DEF P!Spec

-----------------------------------------------------------------------------
(* The parts side by side: a behaviour of the services is one of its       *)
(* part's, so that what is proved of the part holds.                       *)

\* A behaviour in which somebody logs in is one of LoginSecurity.
LEMMA LoginPart == Spec /\ part = "login" => G!Spec
  <1>1. Init /\ part = "login" => G!Init
    BY DEF Init
  <1>2. [Next]_vars /\ part = "login" => [G!Next]_G!vars /\ (part = "login")'
    BY DEF Next, RowsStep, LoginStep, Oauth2Step, PluginsStep, OnlineStep, OrderStep, vars, G!vars,
           loginOwn,
           onceOwn
  <1> QED
    BY <1>1, <1>2, PTL DEF Spec, G!Spec

\* A behaviour in which accounts of another site come along is one of
\* OAuth2Bindings.
LEMMA OAuth2Part == Spec /\ part = "oauth2" => O!Spec
  <1>1. Init /\ part = "oauth2" => O!Init
    BY DEF Init
  <1>2. [Next]_vars /\ part = "oauth2" => [O!Next]_O!vars /\ (part = "oauth2")'
    BY DEF Next, RowsStep, LoginStep, Oauth2Step, PluginsStep, OnlineStep, OrderStep, vars, O!vars,
           oauth2Own,
           onceOwn
  <1> QED
    BY <1>1, <1>2, PTL DEF Spec, O!Spec

\* A behaviour in which plugins are installed is one of PluginLifecycle.
LEMMA PluginsPart == Spec /\ part = "plugins" => P!Spec
  <1>1. Init /\ part = "plugins" => P!Init
    BY DEF Init
  <1>2. [Next]_vars /\ part = "plugins" => [P!Next]_P!vars /\ (part = "plugins")'
    BY DEF Next, RowsStep, LoginStep, Oauth2Step, PluginsStep, OnlineStep, OrderStep, vars, P!vars,
           pluginsOwn
  <1> QED
    BY <1>1, <1>2, PTL DEF Spec, P!Spec

\* The part of a behaviour does not change.
LEMMA OnePart == ASSUME NEW x PROVE [Next]_vars /\ part # x => (part # x)'
  BY DEF Next, RowsStep, LoginStep, Oauth2Step, PluginsStep, OnlineStep, OrderStep, vars

\* Wrong passwords are counted up to the lock, whichever service is at work
\* (user_password_history_service.py).
THEOREM ServicesLockHolds == Spec => []LockHolds
  <1>1. G!LoginAssumption
    BY ServicesAssumption
  <1>2. [Next]_vars /\ part # "login" => (part # "login")'
    BY OnePart
  <1>3. (G!LockHolds => LockHolds) /\ (part # "login" => LockHolds)
    BY DEF LockHolds
  <1>4. Spec /\ part = "login" => G!Spec
    BY LoginPart
  <1>5. G!LoginAssumption /\ G!Spec => []G!LockHolds
    BY LoginLockHolds
  <1>6. Spec /\ part # "login" => []LockHolds
    BY <1>2, <1>3, PTL DEF Spec
  <1>7. Spec /\ part = "login" => []LockHolds
    BY <1>1, <1>3, <1>4, <1>5, PTL
  <1> QED
    BY <1>6, <1>7

\* A captcha or a state lets nobody through who asks after it was spent
\* (auth_service.login, user_service.update_email, oauth2_service.login_or_binding).
THEOREM ServicesSpentOnce == Spec => []SpentOnce
  <1>1. G!LoginAssumption /\ O!OAuthAssumption
    BY ServicesAssumption
  <1>2. /\ [Next]_vars /\ part # "login" => (part # "login")'
        /\ [Next]_vars /\ part # "oauth2" => (part # "oauth2")'
    BY OnePart
  <1>3. Spec /\ part = "login" => G!Spec
    BY LoginPart
  <1>4. Spec /\ part = "oauth2" => O!Spec
    BY OAuth2Part
  <1>5. G!LoginAssumption /\ G!Spec => []G!CaptchaSpent
    BY LoginCaptchaSpent
  <1>6. O!OAuthAssumption /\ O!Spec => []O!StateSpent
    BY OAuth2StateSpent
  <1>7. (part # "login" \/ G!CaptchaSpent) /\ (part # "oauth2" \/ O!StateSpent) => SpentOnce
    BY DEF SpentOnce
  <1>8. Spec => [](part # "login" \/ G!CaptchaSpent)
    <2>1. Spec /\ part = "login" => [](part # "login" \/ G!CaptchaSpent)
      BY <1>1, <1>3, <1>5, PTL
    <2>2. Spec /\ part # "login" => [](part # "login" \/ G!CaptchaSpent)
      BY <1>2, PTL DEF Spec
    <2> QED
      BY <2>1, <2>2
  <1>9. Spec => [](part # "oauth2" \/ O!StateSpent)
    <2>1. Spec /\ part = "oauth2" => [](part # "oauth2" \/ O!StateSpent)
      BY <1>1, <1>4, <1>6, PTL
    <2>2. Spec /\ part # "oauth2" => [](part # "oauth2" \/ O!StateSpent)
      BY <1>2, PTL DEF Spec
    <2> QED
      BY <2>1, <2>2
  <1> QED
    BY <1>7, <1>8, <1>9, PTL

\* Accounts of other sites are bound to users that are there (oauth2_service,
\* crud_user.delete).
THEOREM ServicesBoundToLive == Spec => []BoundToLive
  <1>1. O!OAuthAssumption
    BY ServicesAssumption
  <1>2. [Next]_vars /\ part # "oauth2" => (part # "oauth2")'
    BY OnePart
  <1>3. (O!BoundToLive => BoundToLive) /\ (part # "oauth2" => BoundToLive)
    BY DEF BoundToLive
  <1>4. Spec /\ part = "oauth2" => O!Spec
    BY OAuth2Part
  <1>5. O!OAuthAssumption /\ O!Spec => []O!BoundToLive
    BY OAuth2BoundToLive
  <1>6. Spec /\ part # "oauth2" => []BoundToLive
    BY <1>2, <1>3, PTL DEF Spec
  <1>7. Spec /\ part = "oauth2" => []BoundToLive
    BY <1>1, <1>3, <1>4, <1>5, PTL
  <1> QED
    BY <1>6, <1>7

\* What jobs add to shared files stays, and the watcher keeps still meanwhile
\* (plugin/installer.py, code_gen_service.py, utils/locks.py).
THEOREM ServicesFilesKept == Spec => []FilesKept
  <1>1. P!PluginAssumption
    BY ServicesAssumption
  <1>2. [Next]_vars /\ part # "plugins" => (part # "plugins")'
    BY OnePart
  <1>3. (P!FilesKept => FilesKept) /\ (part # "plugins" => FilesKept)
    BY DEF FilesKept
  <1>4. Spec /\ part = "plugins" => P!Spec
    BY PluginsPart
  <1>5. P!PluginAssumption /\ P!Spec => []P!FilesKept
    BY PluginFilesKept
  <1>6. Spec /\ part # "plugins" => []FilesKept
    BY <1>2, <1>3, PTL DEF Spec
  <1>7. Spec /\ part = "plugins" => []FilesKept
    BY <1>1, <1>3, <1>4, <1>5, PTL
  <1> QED
    BY <1>6, <1>7

-----------------------------------------------------------------------------
(* The rows of the administration, proved in AdminRowsProofs: its          *)
(* definitions, instantiated here, are those of AdminRows.                 *)

AP == INSTANCE AdminRowsProofs

LEMMA RowsAssumed == A!RowsAssumption => AP!RowsAssumption
  BY DEF A!RowsAssumption, AP!RowsAssumption, A!Whole, AP!Whole, A!Clash, AP!Clash, A!KeyOf, AP!KeyOf,
         A!Kinds, AP!Kinds, A!Above, AP!Above, A!UnderNoOne, AP!UnderNoOne

LEMMA RowsNext == A!Next => AP!Next
  BY Zenon
     DEF A!Of, AP!Of, A!Live, AP!Live, A!Fresh, AP!Fresh, A!Row, AP!Row, A!Taken, AP!Taken,
           A!Renames, AP!Renames, A!UnderNoOne, AP!UnderNoOne, A!Plan, AP!Plan, A!Put, AP!Put, A!Kill,
           AP!Kill, A!Relink, AP!Relink, A!Killed, AP!Killed, A!Written, AP!Written, A!RowsAfter,
           AP!RowsAfter, A!LinksAfter, AP!LinksAfter, A!Selected, AP!Selected, A!KeyOf, AP!KeyOf,
           A!Clash, AP!Clash, A!Marks, AP!Marks, A!Changes, AP!Changes, A!DependsOn, AP!DependsOn,
           A!Overlaps, AP!Overlaps, A!Unchecked, AP!Unchecked, A!Done, AP!Done, A!Commit, AP!Commit,
           A!CreateDept, AP!CreateDept, A!UpdateDept, AP!UpdateDept, A!DeleteDept, AP!DeleteDept,
           A!TitleTaken, AP!TitleTaken, A!CreateMenu, AP!CreateMenu, A!UpdateMenu, AP!UpdateMenu,
           A!DeleteMenu, AP!DeleteMenu, A!Some, AP!Some, A!CreateRole, AP!CreateRole, A!UpdateRole,
           AP!UpdateRole, A!UpdateRoleMenu, AP!UpdateRoleMenu, A!UpdateRoleScope, AP!UpdateRoleScope,
           A!DeleteRoles, AP!DeleteRoles, A!CreateScope, AP!CreateScope, A!UpdateScope, AP!UpdateScope,
           A!UpdateScopeRules, AP!UpdateScopeRules, A!DeleteScopes, AP!DeleteScopes, A!CreateRule,
           AP!CreateRule, A!UpdateRule, AP!UpdateRule, A!DeleteRules, AP!DeleteRules, A!MailTaken,
           AP!MailTaken, A!CreateUser, AP!CreateUser, A!UpdateUser, AP!UpdateUser, A!DeleteUser,
           AP!DeleteUser, A!AddByOauth2, AP!AddByOauth2, A!CreateDictType, AP!CreateDictType,
           A!UpdateDictType, AP!UpdateDictType, A!DeleteDictTypes, AP!DeleteDictTypes, A!Labelled,
           AP!Labelled, A!CreateDictData, AP!CreateDictData, A!UpdateDictData, AP!UpdateDictData,
           A!DeleteDictData, AP!DeleteDictData, A!CreateConfig, AP!CreateConfig, A!UpdateConfig,
           AP!UpdateConfig, A!BulkUpdateConfig, AP!BulkUpdateConfig, A!DeleteConfigs, AP!DeleteConfigs,
           A!ColumnTaken, AP!ColumnTaken, A!CreateBusiness, AP!CreateBusiness, A!UpdateBusiness,
           AP!UpdateBusiness, A!DeleteBusiness, AP!DeleteBusiness, A!ImportBusiness, AP!ImportBusiness,
           A!CreateColumn, AP!CreateColumn, A!UpdateColumn, AP!UpdateColumn, A!DeleteColumn,
           AP!DeleteColumn, A!RollBack, AP!RollBack, A!Next, AP!Next

\* A behaviour in which the administration's rows change is one of AdminRows.
LEMMA RowsPart == Spec /\ part = "rows" => A!Spec /\ AP!Spec
  <1>1. Init /\ part = "rows" => A!Init /\ AP!Init
    BY DEF Init, A!Init, AP!Init, A!Idle, AP!Idle
  <1>2. [Next]_vars /\ part = "rows" => [A!Next]_A!vars /\ [AP!Next]_AP!vars /\ (part = "rows")'
    BY RowsNext
       DEF Next, RowsStep, LoginStep, Oauth2Step, PluginsStep, OnlineStep, OrderStep, vars, rowsOwn,
                    A!vars, AP!vars
  <1> QED
    BY <1>1, <1>2, PTL DEF Spec, A!Spec, AP!Spec

\* Rows refer to live rows, whatever requests do one after another
\* (dept_service.py, menu_service.py, user_service.py, dict_data_service.py).
THEOREM ServicesAnchored == Spec => []Anchored
  <1>1. AP!RowsAssumption
    BY ServicesAssumption, RowsAssumed
  <1>2. [Next]_vars /\ part # "rows" => (part # "rows")'
    BY OnePart
  <1>3. (AP!Anchored => Anchored) /\ (part # "rows" => Anchored)
    BY DEF Anchored, A!Anchored, AP!Anchored, A!Live, AP!Live, A!Of, AP!Of, A!UnderNoOne, AP!UnderNoOne
  <1>4. Spec /\ part = "rows" => AP!Spec
    BY RowsPart
  <1>5. AP!RowsAssumption /\ AP!Spec => []AP!Anchored
    BY AP!RowsAnchored
  <1>6. Spec /\ part # "rows" => []Anchored
    BY <1>2, <1>3, PTL DEF Spec
  <1>7. Spec /\ part = "rows" => []Anchored
    BY <1>1, <1>3, <1>4, <1>5, PTL
  <1> QED
    BY <1>6, <1>7

\* The look-ups of the services answer for the unique keys, the titles and the
\* type codes (the create and update of every service of app/admin/service).
THEOREM ServicesChecksSuffice == Spec => []ChecksSuffice
  <1>1. AP!RowsAssumption
    BY ServicesAssumption, RowsAssumed
  <1>2. [Next]_vars /\ part # "rows" => (part # "rows")'
    BY OnePart
  <1>3. /\ (AP!ChecksSuffice /\ AP!TitlesUnique /\ AP!DictCoded) => ChecksSuffice
        /\ part # "rows" => ChecksSuffice
    BY DEF ChecksSuffice, A!ChecksSuffice, AP!ChecksSuffice, A!TitlesUnique, AP!TitlesUnique,
           A!DictCoded, AP!DictCoded, A!Live, AP!Live, A!Of, AP!Of
  <1>4. Spec /\ part = "rows" => AP!Spec
    BY RowsPart
  <1>5. AP!RowsAssumption /\ AP!Spec => [](AP!ChecksSuffice /\ AP!TitlesUnique /\ AP!DictCoded)
    BY AP!RowsChecksSuffice
  <1>6. Spec /\ part # "rows" => []ChecksSuffice
    BY <1>2, <1>3, PTL DEF Spec
  <1>7. Spec /\ part = "rows" => []ChecksSuffice
    BY <1>1, <1>3, <1>4, <1>5, PTL
  <1> QED
    BY <1>6, <1>7

-----------------------------------------------------------------------------
(* Sockets and their sessions.                                             *)
-----------------------------------------------------------------------------
(* The invariant.                                                          *)

OnlineAdded == {"ttl", "expire", "open"}
Times == {0, N!Soon, N!Late}

OnlineTypes ==
    /\ clock \in {0, N!Soon}
    /\ token \in [Sessions -> Times] /\ ttl \in [Sessions -> Times] /\ members \in [Sessions -> SUBSET Sockets]
    /\ sid \in [Sockets -> Times] /\ exp \in [Sockets -> Times] /\ read \in [Sockets -> Times]
    /\ conn \in [Sockets -> BOOLEAN] /\ closing = [c \in Sockets |-> closing[c]]
    /\ pc = [o \in N!Everybody |-> pc[o]] /\ snap = [o \in N!Everybody |-> snap[o]]

\* Tokens are indexed, and a revoked session has none.
OnlineEnded ==
    /\ \A s \in Sessions : token[s] # 0 => s \in index
    /\ \A r \in Revokes : pc[r] \notin {"idle", "absent"} => pc[About[r]] = "in"
    /\ \A s \in Sessions : N!Revoked(s) => token[s] = 0

\* Who takes the user off the list has seen no token, or one was written since.
NoToken == \A s \in Sessions : token[s] = 0
Watched ==
    /\ \A r \in Revokes : pc[r] = "unlist" => hidden \/ NoToken
    /\ \A m \in Monitors :
          /\ pc[m] = "tokens" => hidden \/ \A s \in Sessions \ snap[m] : token[s] = 0
          /\ pc[m] = "srem" => hidden \/ NoToken
    /\ users \/ hidden \/ NoToken

\* Where a socket is.
Placed ==
    \A c \in Sockets :
        /\ pc[c] \in {"idle", "absent"} <=> (~conn[c] /\ closing[c] = "no")
        /\ closing[c] # "no" => ~conn[c] /\ (c \in cut \/ pc[c] = "open")
        /\ pc[c] \notin {"idle", "absent"} => exp[c] # 0
        /\ closing[c] \in {"srem", "rest", "probe", "drop", "end"} => sid[c] = 0 \/ c \in cut

\* The sockets of a session are its own; handlers and tasks hold such sockets.
OnlineMembers == \A s \in Sessions : \A c \in members[s] : Owner[c] = s /\ pc[c] \in OnlineAdded
Rests == \A c \in Sockets : \A o \in snap[c] : o \in Sockets /\ pc[o] \in OnlineAdded
Kicks == \A c \in kick : c \in Sockets /\ \E r \in Revokes : About[r] = Owner[c] /\ pc[r] = "done"
Revoking ==
    \A r \in Revokes :
        /\ \A c \in snap[r] : c \in Sockets /\ Owner[c] = About[r] /\ pc[r] \notin {"idle", "absent", "done"}
        /\ pc[r] = "delete" => members[About[r]] \subseteq snap[r] \cup missed
        /\ pc[r] \notin {"idle", "absent", "delete"} => members[About[r]] \subseteq missed

\* A socket is about to be disconnected.
Going(c) ==
    \/ c \in kick
    \/ \E r \in Revokes : About[r] = Owner[c] /\ pc[r] \in {"srem", "check", "unlist", "kick"} /\ c \in snap[r]

\* A socket whose token has not run out has its key, nobody else's disconnect
\* takes it off its set, and it is there.
Lasts(c) == conn[c] /\ exp[c] > clock
Keyed == \A c \in Sockets : Lasts(c) /\ pc[c] \in {"add"} \cup OnlineAdded => sid[c] = exp[c] \/ Going(c)
Spared == \A c, o \in Sockets : Lasts(c) /\ closing[o] = "drop" /\ c \in snap[o] => Going(c)
Grouped ==
    \A c \in Sockets : Lasts(c) /\ pc[c] \in OnlineAdded /\ c \notin raced =>
        c \in members[Owner[c]] \/ Going(c) \/ (c \in missed /\ N!Revoked(Owner[c]))
Lasting ==
    \A c \in Sockets : Lasts(c) /\ pc[c] = "open" /\ c \notin raced /\ c \in members[Owner[c]] =>
        ttl[Owner[c]] >= exp[c]

OnlineInv ==
    /\ N!OnlineAssumption /\ OnlineTypes /\ OnlineEnded /\ Watched /\ Placed
    /\ OnlineMembers /\ Rests /\ Kicks /\ Revoking
    /\ Keyed /\ Spared /\ Grouped /\ Lasting

-----------------------------------------------------------------------------
(* What the steps of one operation leave alone.                            *)

LEMMA Apart ==
    ASSUME N!OnlineAssumption
    PROVE  /\ Sessions \cup Sockets \cup Revokes \cup Monitors \subseteq N!Everybody
           /\ Sessions \cap Sockets = {} /\ (Sessions \cup Sockets) \cap (Revokes \cup Monitors) = {}
           /\ Revokes \cap Monitors = {}
           /\ \A r \in Revokes : About[r] \in Sessions
           /\ \A c \in Sockets : Owner[c] \in Sessions
  BY DEF N!OnlineAssumption, N!Everybody

OnlineOnly(o) ==
    /\ pc' = [x \in N!Everybody |-> pc'[x]] /\ snap' = [x \in N!Everybody |-> snap'[x]]
    /\ \A x \in N!Everybody \ {o} : pc'[x] = pc[x] /\ snap'[x] = snap[x]

SessionStep(s) == N!Login(s) \/ N!Refresh(s)
RevokeStep(r) ==
    \/ N!ReadSids(r) \/ N!DeleteKeys(r) \/ N!RemoveMembers(r) \/ N!CheckIndex(r) \/ N!Unlist(r) \/ N!StartKicks(r)
MonitorStep(m) == N!ReadUsers(m) \/ N!ReadSessions(m) \/ N!ReadTokens(m) \/ N!RemoveUser(m)

LEMMA OnlySession == ASSUME OnlineTypes, NEW s \in Sessions, SessionStep(s) PROVE OnlineOnly(s)
  BY DEF OnlineTypes, OnlineOnly, SessionStep, N!Login, N!Refresh, N!WriteToken, N!Goes

LEMMA OnlyMonitor == ASSUME OnlineTypes, NEW m \in Monitors, MonitorStep(m) PROVE OnlineOnly(m)
  <1>1. CASE N!ReadUsers(m) \/ N!ReadSessions(m)
    BY <1>1 DEF OnlineTypes, OnlineOnly, N!ReadUsers, N!ReadSessions, N!Goes
  <1>2. CASE N!ReadTokens(m) \/ N!RemoveUser(m)
    BY <1>2 DEF OnlineTypes, OnlineOnly, N!ReadTokens, N!RemoveUser, N!Goes
  <1> QED
    BY <1>1, <1>2 DEF MonitorStep

LEMMA OnlyRevoke == ASSUME OnlineTypes, NEW r \in Revokes, RevokeStep(r) PROVE OnlineOnly(r)
  <1>1. CASE N!ReadSids(r) \/ N!DeleteKeys(r) \/ N!RemoveMembers(r)
    BY <1>1 DEF OnlineTypes, OnlineOnly, N!ReadSids, N!DeleteKeys, N!RemoveMembers, N!Goes
  <1>2. CASE N!CheckIndex(r) \/ N!Unlist(r) \/ N!StartKicks(r)
    BY <1>2 DEF OnlineTypes, OnlineOnly, N!CheckIndex, N!Unlist, N!StartKicks, N!Goes
  <1> QED
    BY <1>1, <1>2 DEF RevokeStep

LEMMA OnlySocket == ASSUME OnlineTypes, NEW c \in Sockets, N!SocketStep(c) PROVE OnlineOnly(c)
  <1>1. CASE N!Authenticate(c) \/ N!SetSid(c) \/ N!AddSid(c) \/ N!ReadTtl(c) \/ N!SetTtl(c)
    BY <1>1 DEF OnlineTypes, OnlineOnly, N!Authenticate, N!SetSid, N!AddSid, N!ReadTtl, N!SetTtl, N!Goes
  <1>2. CASE N!Close(c) \/ N!Kick(c) \/ N!GetSid(c) \/ N!DelSid(c) \/ N!RemoveSid(c)
    BY <1>2 DEF OnlineTypes, OnlineOnly, N!Close, N!Kick, N!Ends, N!GetSid, N!DelSid, N!RemoveSid,
                N!socket, N!history
  <1>3. CASE N!ReadRest(c) \/ N!ProbeRest(c) \/ N!DropStale(c)
    BY <1>3 DEF OnlineTypes, OnlineOnly, N!ReadRest, N!ProbeRest, N!DropStale
  <1> QED
    BY <1>1, <1>2, <1>3 DEF N!SocketStep

SessionFrame(s) ==
    /\ UNCHANGED <<clock, sid, members, ttl, N!socket, kick, missed, raced, cut>>
    /\ \A o \in Sockets \cup Revokes \cup Monitors : pc'[o] = pc[o] /\ snap'[o] = snap[o]
    /\ \A x \in Sessions \ {s} : pc'[x] = pc[x]
    /\ pc'[s] = "in"

LEMMA OfSession ==
    ASSUME N!OnlineAssumption, OnlineTypes, NEW s \in Sessions, SessionStep(s) PROVE SessionFrame(s)
  <1>1. OnlineOnly(s)
    BY OnlySession
  <1>2. UNCHANGED <<clock, sid, members, ttl, N!socket, kick, missed, raced, cut>> /\ pc'[s] = "in"
    BY Apart DEF SessionStep, N!Login, N!Refresh, N!WriteToken, N!Goes, OnlineTypes
  <1> QED
    BY <1>1, <1>2, Apart DEF SessionFrame, OnlineOnly

MonitorFrame(m) ==
    /\ UNCHANGED <<clock, token, index, sid, members, ttl, N!socket, kick, N!history>>
    /\ \A o \in Sessions \cup Sockets \cup Revokes : pc'[o] = pc[o] /\ snap'[o] = snap[o]
    /\ \A x \in Monitors \ {m} : pc'[x] = pc[x] /\ snap'[x] = snap[x]

LEMMA OfMonitor ==
    ASSUME N!OnlineAssumption, OnlineTypes, NEW m \in Monitors, MonitorStep(m) PROVE MonitorFrame(m)
  <1>1. OnlineOnly(m)
    BY OnlyMonitor
  <1>2. UNCHANGED <<clock, token, index, sid, members, ttl, N!socket, kick, N!history>>
    BY DEF MonitorStep, N!ReadUsers, N!ReadSessions, N!ReadTokens, N!RemoveUser, N!keys, N!socket,
           N!history
  <1> QED
    BY <1>1, <1>2, Apart DEF MonitorFrame, OnlineOnly

RevokeFrame(r) ==
    /\ UNCHANGED <<clock, N!socket, N!history>>
    /\ \A o \in Sessions \cup Sockets \cup Monitors : pc'[o] = pc[o] /\ snap'[o] = snap[o]
    /\ \A x \in Revokes \ {r} : pc'[x] = pc[x] /\ snap'[x] = snap[x]
    /\ \A c \in Sockets : sid'[c] = sid[c] \/ (sid'[c] = 0 /\ c \in snap[r] /\ pc[r] = "delete")
    /\ \A s \in Sessions : \/ members'[s] = members[s] /\ ttl'[s] = ttl[s]
                           \/ members'[s] = {} /\ s = About[r] /\ pc[r] = "delete"

LEMMA OfRevoke ==
    ASSUME N!OnlineAssumption, OnlineTypes, NEW r \in Revokes, RevokeStep(r) PROVE RevokeFrame(r)
  <1>1. OnlineOnly(r)
    BY OnlyRevoke
  <1>2. UNCHANGED <<clock, N!socket, N!history>>
    BY DEF RevokeStep, N!ReadSids, N!DeleteKeys, N!RemoveMembers, N!CheckIndex, N!Unlist, N!StartKicks,
           N!socket,
           N!history
  <1>3. /\ \A c \in Sockets : sid'[c] = sid[c] \/ (sid'[c] = 0 /\ c \in snap[r] /\ pc[r] = "delete")
        /\ \A s \in Sessions : \/ members'[s] = members[s] /\ ttl'[s] = ttl[s]
                               \/ members'[s] = {} /\ s = About[r] /\ pc[r] = "delete"
    <2>1. CASE N!DeleteKeys(r)
      BY <2>1, Apart DEF N!DeleteKeys, OnlineTypes
    <2>2. CASE ~N!DeleteKeys(r)
      BY <2>2 DEF RevokeStep, N!ReadSids, N!RemoveMembers, N!CheckIndex, N!Unlist, N!StartKicks, N!keys
    <2> QED
      BY <2>1, <2>2
  <1> QED
    BY <1>1, <1>2, <1>3, Apart DEF RevokeFrame, OnlineOnly

SocketFrame(c) ==
    /\ UNCHANGED <<clock, token, index, users, hidden>>
    /\ kick' \subseteq kick /\ missed \subseteq missed' /\ raced \subseteq raced' /\ cut \subseteq cut'
    /\ \A o \in Sessions \cup Revokes \cup Monitors : pc'[o] = pc[o] /\ snap'[o] = snap[o]
    /\ \A o \in Sockets \ {c} :
          /\ pc'[o] = pc[o] /\ snap'[o] = snap[o] /\ conn'[o] = conn[o]
          /\ closing'[o] = closing[o] /\ exp'[o] = exp[o] /\ sid'[o] = sid[o]
    /\ \A s \in Sessions : \A x \in members'[s] :
          \/ x \in members[s]
          \/ /\ x = c /\ s = Owner[c] /\ pc[c] = "add" /\ pc'[c] = "ttl"
             /\ c \in missed' \/ \A r \in Revokes : About[r] = s => pc[r] \in {"idle", "absent"}

LEMMA OfSocket ==
    ASSUME N!OnlineAssumption, OnlineTypes, NEW c \in Sockets, N!SocketStep(c) PROVE SocketFrame(c)
  <1>1. OnlineOnly(c)
    BY OnlySocket
  <1>2. /\ UNCHANGED <<clock, token, index, users, hidden>>
        /\ kick' \subseteq kick /\ missed \subseteq missed' /\ raced \subseteq raced' /\ cut \subseteq cut'
        /\ \A o \in Sockets \ {c} : /\ conn'[o] = conn[o] /\ closing'[o] = closing[o]
                                    /\ exp'[o] = exp[o] /\ sid'[o] = sid[o]
    <2>1. CASE N!Authenticate(c) \/ N!SetSid(c) \/ N!AddSid(c) \/ N!ReadTtl(c) \/ N!SetTtl(c)
      BY <2>1 DEF OnlineTypes, N!Authenticate, N!SetSid, N!AddSid, N!ReadTtl, N!SetTtl, N!keys,
                  N!socket, N!history
    <2>2. CASE N!Close(c) \/ N!Kick(c) \/ N!GetSid(c) \/ N!DelSid(c) \/ N!RemoveSid(c)
      BY <2>2
         DEF OnlineTypes, N!Close, N!Kick, N!Ends, N!GetSid, N!DelSid, N!RemoveSid, N!Without, N!GoesOn, N!keys, N!socket, N!history
    <2>3. CASE N!ReadRest(c) \/ N!ProbeRest(c) \/ N!DropStale(c)
      BY <2>3
         DEF OnlineTypes, N!ReadRest, N!ProbeRest, N!DropStale, N!Without, N!GoesOn, N!keys, N!history
    <2> QED
      BY <2>1, <2>2, <2>3 DEF N!SocketStep
  <1>3. \A s \in Sessions : \A x \in members'[s] :
          \/ x \in members[s]
          \/ /\ x = c /\ s = Owner[c] /\ pc[c] = "add" /\ pc'[c] = "ttl"
             /\ c \in missed' \/ \A r \in Revokes : About[r] = s => pc[r] \in {"idle", "absent"}
    <2>1. CASE N!AddSid(c)
      BY <2>1, Apart DEF N!AddSid, OnlineTypes, N!Goes
    <2>2. CASE N!Authenticate(c) \/ N!SetSid(c) \/ N!ReadTtl(c) \/ N!SetTtl(c)
      BY <2>2 DEF N!Authenticate, N!SetSid, N!ReadTtl, N!SetTtl, N!keys
    <2>3. CASE N!Close(c) \/ N!Kick(c) \/ N!GetSid(c) \/ N!DelSid(c) \/ N!RemoveSid(c)
      BY <2>3
         DEF OnlineTypes, N!Close, N!Kick, N!Ends, N!GetSid, N!DelSid, N!RemoveSid, N!Without, N!keys
    <2>4. CASE N!ReadRest(c) \/ N!ProbeRest(c)
      BY <2>4 DEF N!ReadRest, N!ProbeRest, N!keys
    <2>5. CASE N!DropStale(c)
      <3>1. members' = [members EXCEPT ![Owner[c]] = @ \ snap[c]]
        BY <2>5 DEF N!DropStale, N!Without
      <3> QED
        BY <3>1, Apart DEF OnlineTypes
    <2> QED
      BY <2>1, <2>2, <2>3, <2>4, <2>5 DEF N!SocketStep
  <1> QED
    BY <1>1, <1>2, <1>3, Apart DEF SocketFrame, OnlineOnly

-----------------------------------------------------------------------------
(* Who has a session.                                                      *)

LEMMA RevokedStays ==
    ASSUME N!OnlineAssumption, OnlineTypes, NEW s \in Sessions, N!Revoked(s),
           \A r \in Revokes : pc'[r] = pc[r] \/ RevokeStep(r)
    PROVE  N!Revoked(s)'
  <1>1. PICK r \in Revokes : About[r] = s /\ pc[r] \notin {"idle", "absent", "delete"}
    BY DEF N!Revoked
  <1>2. pc'[r] \notin {"idle", "absent", "delete"}
    <2>1. r \in N!Everybody /\ ~N!ReadSids(r) /\ ~N!DeleteKeys(r)
      BY <1>1, Apart DEF N!ReadSids, N!DeleteKeys
    <2>2. CASE N!RemoveMembers(r) \/ N!CheckIndex(r)
      BY <2>1, <2>2 DEF N!RemoveMembers, N!CheckIndex, N!Goes, OnlineTypes
    <2>3. CASE N!Unlist(r) \/ N!StartKicks(r)
      BY <2>1, <2>3 DEF N!Unlist, N!StartKicks, N!Goes, OnlineTypes
    <2> QED
      BY <1>1, <2>1, <2>2, <2>3 DEF RevokeStep
  <1> QED
    BY <1>1, <1>2 DEF N!Revoked

LEMMA EndedStep == ASSUME OnlineInv, N!Next PROVE OnlineEnded'
  <1>a. N!OnlineAssumption /\ OnlineTypes /\ OnlineEnded
    BY DEF OnlineInv
  <1>1. ASSUME NEW s \in Sessions, SessionStep(s) PROVE OnlineEnded'
    <2>1. SessionFrame(s)
      BY <1>a, <1>1, OfSession
    <2>2. /\ (\A x \in Sessions \ {s} : token'[x] = token[x]) /\ index' = index \cup {s}
          /\ ~N!Revoked(s)
      <3>1. CASE N!Login(s)
        <4>1. \A r \in Revokes : About[r] = s => pc[r] \in {"idle", "absent"}
          BY <1>a, <3>1 DEF OnlineEnded, N!Login
        <4> QED
          BY <1>a, <3>1, <4>1 DEF N!Login, N!WriteToken, OnlineTypes, N!Revoked
      <3>2. CASE N!Refresh(s)
        BY <1>a, <3>2 DEF N!Refresh, N!WriteToken, OnlineTypes
      <3> QED
        BY <1>1, <3>1, <3>2 DEF SessionStep
    <2>3. \A x \in Sessions : N!Revoked(x)' => N!Revoked(x)
      BY <2>1 DEF SessionFrame, N!Revoked
    <2>4. \A r \in Revokes : pc'[r] = pc[r] /\ (pc[About[r]] = "in" => pc'[About[r]] = "in")
      BY <1>a, <2>1, Apart DEF SessionFrame
    <2>5. \A x \in Sessions : N!Revoked(x)' => token'[x] = 0
      BY <1>a, <2>2, <2>3 DEF OnlineEnded
    <2> QED
      BY <1>a, <2>2, <2>4, <2>5 DEF OnlineEnded
  <1>2. ASSUME NEW c \in Sockets, N!SocketStep(c) PROVE OnlineEnded'
    <2>1. SocketFrame(c)
      BY <1>a, <1>2, OfSocket
    <2> QED
      BY <1>a, <2>1, Apart DEF OnlineEnded, N!Revoked, SocketFrame
  <1>3. ASSUME NEW m \in Monitors, MonitorStep(m) PROVE OnlineEnded'
    <2>1. MonitorFrame(m)
      BY <1>a, <1>3, OfMonitor
    <2> QED
      BY <1>a, <2>1, Apart DEF OnlineEnded, N!Revoked, MonitorFrame
  <1>4. ASSUME NEW r \in Revokes, RevokeStep(r) PROVE OnlineEnded'
    <2>1. RevokeFrame(r) /\ r \in N!Everybody /\ About[r] \in Sessions
      BY <1>a, <1>4, OfRevoke, Apart
    <2>2. /\ pc[r] \in {"idle", "absent"} => pc[About[r]] = "in"
          /\ pc'[r] \notin {"idle", "absent"}
          /\ pc'[r] = "delete" \/ (pc[r] = "delete" /\ token'[About[r]] = 0)
                               \/ pc[r] \notin {"idle", "absent", "delete"}
          /\ \A s \in Sessions : token'[s] = token[s] \/ token'[s] = 0
          /\ \A s \in Sessions : token'[s] # 0 /\ s \in index => s \in index' \/ (s = About[r] /\ pc[r] = "srem")
      <3>1. CASE N!ReadSids(r)
        BY <1>a, <2>1, <3>1 DEF N!ReadSids, N!Goes, OnlineTypes, N!keys
      <3>2. CASE N!DeleteKeys(r)
        BY <1>a, <2>1, <3>2 DEF N!DeleteKeys, N!Goes, OnlineTypes
      <3>3. CASE N!RemoveMembers(r) \/ N!CheckIndex(r)
        BY <1>a, <2>1, <3>3 DEF N!RemoveMembers, N!CheckIndex, N!Goes, OnlineTypes, N!keys
      <3>4. CASE N!Unlist(r) \/ N!StartKicks(r)
        BY <1>a, <2>1, <3>4 DEF N!Unlist, N!StartKicks, N!Goes, OnlineTypes, N!keys
      <3> QED
        BY <1>4, <3>1, <3>2, <3>3, <3>4 DEF RevokeStep
    <2>3. pc[r] = "srem" => N!Revoked(About[r])
      BY DEF N!Revoked
    <2>4. \A s \in Sessions : token'[s] # 0 => s \in index'
      BY <1>a, <2>1, <2>2, <2>3 DEF OnlineEnded
    <2>5. \A x \in Revokes : pc'[x] \notin {"idle", "absent"} => pc'[About[x]] = "in"
      BY <1>a, <2>1, <2>2, Apart DEF OnlineEnded, RevokeFrame
    <2>6. ASSUME NEW s \in Sessions, N!Revoked(s)' PROVE token'[s] = 0
      <3>1. PICK x \in Revokes : About[x] = s /\ pc'[x] \notin {"idle", "absent", "delete"}
        BY <2>6 DEF N!Revoked
      <3>2. N!Revoked(s) => token'[s] = 0
        BY <1>a, <2>2 DEF OnlineEnded
      <3> QED
        BY <2>1, <2>2, <3>1, <3>2 DEF RevokeFrame, N!Revoked
    <2> QED
      BY <2>4, <2>5, <2>6 DEF OnlineEnded
  <1>5. CASE N!Tick
    BY <1>a, <1>5 DEF N!Tick, OnlineEnded, OnlineTypes, N!Revoked
  <1>6. CASE N!Crash
    <2>1. \A o \in Sessions \cup Revokes : pc'[o] = pc[o]
      BY <1>a, <1>6, Apart DEF N!Crash
    <2> QED
      BY <1>a, <1>6, <2>1, Apart DEF N!Crash, OnlineEnded, N!Revoked, N!keys
  <1> QED
    BY <1>1, <1>2, <1>3, <1>4, <1>5, <1>6 DEF N!Next, SessionStep, RevokeStep, MonitorStep

LEMMA WatchedStep == ASSUME OnlineInv, N!Next PROVE Watched'
  <1>a. N!OnlineAssumption /\ OnlineTypes /\ OnlineEnded /\ Watched
    BY DEF OnlineInv
  <1>1. ASSUME NEW s \in Sessions, SessionStep(s) PROVE Watched'
    <2>1. SessionFrame(s)
      BY <1>a, <1>1, OfSession
    <2>2. /\ users' = TRUE
          /\ (\E m \in Monitors : pc[m] \in {"tokens", "srem"}) \/ (\E r \in Revokes : pc[r] = "unlist") => hidden'
      BY <1>1 DEF SessionStep, N!Login, N!Refresh, N!WriteToken
    <2> QED
      BY <2>1, <2>2 DEF Watched, SessionFrame
  <1>2. ASSUME NEW c \in Sockets, N!SocketStep(c) PROVE Watched'
    <2>1. SocketFrame(c)
      BY <1>a, <1>2, OfSocket
    <2> QED
      BY <1>a, <2>1 DEF Watched, NoToken, SocketFrame
  <1>3. ASSUME NEW m \in Monitors, MonitorStep(m) PROVE Watched'
    <2>1. MonitorFrame(m) /\ m \in N!Everybody
      BY <1>a, <1>3, OfMonitor, Apart
    <2>2. NoToken' <=> NoToken
      BY <2>1 DEF NoToken, MonitorFrame
    <2>3. /\ pc'[m] = "tokens" => hidden \/ \A s \in Sessions \ snap'[m] : token[s] = 0
          /\ pc'[m] = "srem" => hidden \/ NoToken
          /\ users' = users \/ (pc[m] = "srem" /\ users' = FALSE)
      <3>1. CASE N!ReadUsers(m)
        BY <1>a, <2>1, <3>1 DEF N!ReadUsers, N!Goes, OnlineTypes, N!keys
      <3>2. CASE N!ReadSessions(m)
        BY <1>a, <2>1, <3>2 DEF N!ReadSessions, N!Goes, OnlineTypes, OnlineEnded, NoToken, N!keys
      <3>3. CASE N!ReadTokens(m)
        BY <1>a, <2>1, <3>3 DEF N!ReadTokens, N!Goes, OnlineTypes, Watched, NoToken, N!keys
      <3>4. CASE N!RemoveUser(m)
        BY <1>a, <2>1, <3>4 DEF N!RemoveUser, N!Goes, OnlineTypes
      <3> QED
        BY <1>3, <3>1, <3>2, <3>3, <3>4 DEF MonitorStep
    <2> QED
      BY <1>a, <2>1, <2>2, <2>3 DEF Watched, MonitorFrame, N!history
  <1>4. ASSUME NEW r \in Revokes, RevokeStep(r) PROVE Watched'
    <2>1. RevokeFrame(r) /\ r \in N!Everybody /\ About[r] \in Sessions
      BY <1>a, <1>4, OfRevoke, Apart
    <2>2. /\ \A s \in Sessions : token'[s] = token[s] \/ token'[s] = 0
          /\ pc'[r] = "unlist" => NoToken
          /\ users' = users \/ (pc[r] = "unlist" /\ users' = FALSE)
      <3>1. CASE N!ReadSids(r)
        BY <1>a, <2>1, <3>1 DEF N!ReadSids, N!Goes, OnlineTypes, N!keys
      <3>2. CASE N!DeleteKeys(r)
        BY <1>a, <2>1, <3>2 DEF N!DeleteKeys, N!Goes, OnlineTypes
      <3>3. CASE N!RemoveMembers(r)
        BY <1>a, <2>1, <3>3 DEF N!RemoveMembers, N!Goes, OnlineTypes
      <3>4. CASE N!CheckIndex(r)
        BY <1>a, <2>1, <3>4 DEF N!CheckIndex, N!Goes, OnlineTypes, OnlineEnded, NoToken, N!keys
      <3>5. CASE N!Unlist(r) \/ N!StartKicks(r)
        BY <1>a, <2>1, <3>5 DEF N!Unlist, N!StartKicks, N!Goes, OnlineTypes, N!keys
      <3> QED
        BY <1>4, <3>1, <3>2, <3>3, <3>4, <3>5 DEF RevokeStep
    <2>3. NoToken => NoToken'
      BY <2>2 DEF NoToken
    <2> QED
      BY <1>a, <2>1, <2>2, <2>3 DEF Watched, RevokeFrame, N!history
  <1>5. CASE N!Tick
    BY <1>a, <1>5 DEF N!Tick, Watched, NoToken, OnlineTypes, N!history
  <1>6. CASE N!Crash
    <2>1. \A o \in Monitors \cup Revokes : pc'[o] = pc[o] /\ snap'[o] = snap[o]
      BY <1>a, <1>6, Apart DEF N!Crash
    <2> QED
      BY <1>a, <1>6, <2>1 DEF N!Crash, Watched, NoToken, N!keys
  <1> QED
    BY <1>1, <1>2, <1>3, <1>4, <1>5, <1>6 DEF N!Next, SessionStep, RevokeStep, MonitorStep

-----------------------------------------------------------------------------
(* Where the sockets are.                                                  *)

LEMMA OnlineTypesStep == ASSUME OnlineInv, N!Next PROVE OnlineTypes'
  <1>a. N!OnlineAssumption /\ OnlineTypes
    BY DEF OnlineInv
  <1>1. ASSUME NEW s \in Sessions, SessionStep(s) PROVE OnlineTypes'
    <2>1. OnlineOnly(s) /\ SessionFrame(s)
      BY <1>a, <1>1, OnlySession, OfSession
    <2>2. token' \in [Sessions -> Times]
      <3>1. clock + 1 \in Times /\ N!Late \in Times
        BY <1>a DEF OnlineTypes, Times, N!Soon, N!Late
      <3>2. CASE N!Login(s)
        BY <1>a, <3>1, <3>2 DEF N!Login, N!WriteToken, OnlineTypes
      <3>3. CASE N!Refresh(s)
        BY <1>a, <3>1, <3>3 DEF N!Refresh, N!WriteToken, OnlineTypes
      <3> QED
        BY <1>1, <3>2, <3>3 DEF SessionStep
    <2> QED
      BY <1>a, <2>1, <2>2 DEF OnlineTypes, OnlineOnly, SessionFrame, N!socket
  <1>2. ASSUME NEW c \in Sockets, N!SocketStep(c) PROVE OnlineTypes'
    <2>1. OnlineOnly(c) /\ SocketFrame(c)
      BY <1>a, <1>2, OnlySocket, OfSocket
    <2>2. CASE N!Authenticate(c)
      <3>1. token[Owner[c]] \in Times
        BY <1>a, Apart DEF OnlineTypes
      <3> QED
        BY <1>a, <2>1, <2>2, <3>1 DEF N!Authenticate, OnlineTypes, OnlineOnly, SocketFrame, N!keys
    <2>c. CASE N!SetSid(c)
      BY <1>a, <2>1, <2>c DEF N!SetSid, OnlineTypes, OnlineOnly, SocketFrame, N!socket
    <2>a. CASE N!AddSid(c) \/ N!ReadTtl(c)
      BY <1>a, <2>1, <2>a, Apart
         DEF N!AddSid, N!ReadTtl, OnlineTypes, OnlineOnly, SocketFrame, N!keys, N!socket
    <2>3. CASE N!SetTtl(c)
      <3>1. (IF members[Owner[c]] = {} THEN 0 ELSE N!NewTtl(c)) \in Times
        BY <1>a DEF N!NewTtl, OnlineTypes, Times
      <3> QED
        BY <1>a, <2>1, <2>3, <3>1, Apart DEF N!SetTtl, OnlineTypes, OnlineOnly, SocketFrame, N!socket
    <2>b. CASE N!Close(c) \/ N!Kick(c)
      BY <1>a, <2>1, <2>b
         DEF N!Close, N!Kick, N!Ends, N!GoesOn, OnlineTypes, OnlineOnly, SocketFrame, N!keys, N!socket
    <2>4. CASE N!GetSid(c) \/ N!DelSid(c)
      BY <1>a, <2>1, <2>4
         DEF N!GetSid, N!DelSid, N!GoesOn, OnlineTypes, OnlineOnly, SocketFrame, Times, N!keys
    <2>5. CASE N!ReadRest(c) \/ N!ProbeRest(c)
      BY <1>a, <2>1, <2>5
         DEF N!ReadRest, N!ProbeRest, N!GoesOn, OnlineTypes, OnlineOnly, SocketFrame, N!keys
    <2>6. CASE N!RemoveSid(c) \/ N!DropStale(c)
      BY <1>a, <2>1, <2>6, Apart
         DEF N!RemoveSid, N!DropStale, N!Without, N!GoesOn, OnlineTypes, OnlineOnly, SocketFrame, Times
    <2> QED
      BY <1>2, <2>2, <2>a, <2>3, <2>b, <2>c, <2>4, <2>5, <2>6 DEF N!SocketStep
  <1>3. ASSUME NEW m \in Monitors, MonitorStep(m) PROVE OnlineTypes'
    <2>1. OnlineOnly(m) /\ MonitorFrame(m)
      BY <1>a, <1>3, OnlyMonitor, OfMonitor
    <2> QED
      BY <1>a, <2>1 DEF OnlineTypes, OnlineOnly, MonitorFrame, N!socket
  <1>4. ASSUME NEW r \in Revokes, RevokeStep(r) PROVE OnlineTypes'
    <2>1. OnlineOnly(r) /\ RevokeFrame(r)
      BY <1>a, <1>4, OnlyRevoke, OfRevoke
    <2>2. /\ token' \in [Sessions -> Times] /\ ttl' \in [Sessions -> Times] /\ sid' \in [Sockets -> Times]
          /\ members' \in [Sessions -> SUBSET Sockets]
      <3>1. CASE N!DeleteKeys(r)
        BY <1>a, <3>1 DEF N!DeleteKeys, OnlineTypes, Times
      <3>2. CASE ~N!DeleteKeys(r)
        BY <1>a, <1>4, <3>2
           DEF RevokeStep, N!ReadSids, N!RemoveMembers, N!CheckIndex, N!Unlist, N!StartKicks, OnlineTypes, N!keys
      <3> QED
        BY <3>1, <3>2
    <2> QED
      BY <1>a, <2>1, <2>2 DEF OnlineTypes, OnlineOnly, RevokeFrame, N!socket
  <1>5. CASE N!Tick
    BY <1>a, <1>5 DEF N!Tick, OnlineTypes, Times, N!socket
  <1>6. CASE N!Crash
    BY <1>a, <1>6 DEF N!Crash, OnlineTypes, N!keys
  <1> QED
    BY <1>1, <1>2, <1>3, <1>4, <1>5, <1>6 DEF N!Next, SessionStep, RevokeStep, MonitorStep

LEMMA PlacedStep == ASSUME OnlineInv, N!Next PROVE Placed'
  <1>a. N!OnlineAssumption /\ OnlineTypes /\ Placed
    BY DEF OnlineInv
  <1>1. ASSUME NEW s \in Sessions, SessionStep(s) PROVE Placed'
    <2>1. SessionFrame(s)
      BY <1>a, <1>1, OfSession
    <2> QED
      BY <1>a, <2>1 DEF Placed, SessionFrame, N!socket
  <1>2. ASSUME NEW c \in Sockets, N!SocketStep(c) PROVE Placed'
    <2>1. SocketFrame(c) /\ c \in N!Everybody
      BY <1>a, <1>2, OfSocket, Apart
    <2>2. /\ pc'[c] \in {"idle", "absent"} <=> (~conn'[c] /\ closing'[c] = "no")
          /\ closing'[c] # "no" => ~conn'[c] /\ (c \in cut' \/ pc'[c] = "open")
          /\ pc'[c] \notin {"idle", "absent"} => exp'[c] # 0
          /\ closing'[c] \in {"srem", "rest", "probe", "drop", "end"} => sid'[c] = 0 \/ c \in cut'
      <3>1. CASE N!Authenticate(c)
        BY <1>a, <2>1, <3>1 DEF N!Authenticate, N!Goes, OnlineTypes, Placed
      <3>2. CASE N!SetSid(c) \/ N!AddSid(c) \/ N!ReadTtl(c) \/ N!SetTtl(c)
        BY <1>a, <2>1, <3>2
           DEF N!SetSid, N!AddSid, N!ReadTtl, N!SetTtl, N!Goes, OnlineTypes, Placed, N!keys, N!socket, N!history
      <3>3. CASE N!Close(c) \/ N!Kick(c)
        BY <1>a, <2>1, <3>3
           DEF N!Close, N!Kick, N!Ends, N!GoesOn, OnlineTypes, Placed, N!keys, N!socket, N!history
      <3>4. CASE N!GetSid(c) \/ N!DelSid(c) \/ N!RemoveSid(c)
        BY <1>a, <2>1, <3>4
           DEF N!GetSid, N!DelSid, N!RemoveSid, N!GoesOn, OnlineTypes, Placed, N!keys, N!history
      <3>5. CASE N!ReadRest(c) \/ N!ProbeRest(c) \/ N!DropStale(c)
        BY <1>a, <2>1, <3>5
           DEF N!ReadRest, N!ProbeRest, N!DropStale, N!GoesOn, OnlineTypes, Placed, N!keys, N!history
      <3> QED
        BY <1>2, <3>1, <3>2, <3>3, <3>4, <3>5 DEF N!SocketStep
    <2> QED
      BY <1>a, <2>1, <2>2 DEF Placed, SocketFrame
  <1>3. ASSUME NEW m \in Monitors, MonitorStep(m) PROVE Placed'
    <2>1. MonitorFrame(m)
      BY <1>a, <1>3, OfMonitor
    <2> QED
      BY <1>a, <2>1 DEF Placed, MonitorFrame, N!socket, N!history
  <1>4. ASSUME NEW r \in Revokes, RevokeStep(r) PROVE Placed'
    <2>1. RevokeFrame(r)
      BY <1>a, <1>4, OfRevoke
    <2> QED
      BY <1>a, <2>1 DEF Placed, RevokeFrame, N!socket, N!history
  <1>5. CASE N!Tick
    BY <1>a, <1>5 DEF N!Tick, Placed, OnlineTypes, N!socket, N!history
  <1>6. CASE N!Crash
    <2>1. \A c \in Sockets : c \in N!Everybody
      BY <1>a, Apart
    <2> QED
      BY <1>a, <1>6, <2>1 DEF N!Crash, Placed, N!keys
  <1> QED
    BY <1>1, <1>2, <1>3, <1>4, <1>5, <1>6 DEF N!Next, SessionStep, RevokeStep, MonitorStep

\* A socket on a set stays where sockets on sets are.
LEMMA AddedStays ==
    ASSUME OnlineInv, N!Next, NEW c \in Sockets, pc[c] \in OnlineAdded PROVE pc'[c] \in OnlineAdded
  <1>a. N!OnlineAssumption /\ OnlineTypes
    BY DEF OnlineInv
  <1>1. ASSUME NEW o \in Sockets, N!SocketStep(o) PROVE pc'[c] \in OnlineAdded
    <2>1. SocketFrame(o) /\ o \in N!Everybody
      BY <1>a, <1>1, OfSocket, Apart
    <2>2. CASE o = c /\ (N!Authenticate(c) \/ N!SetSid(c) \/ N!AddSid(c) \/ N!ReadTtl(c) \/ N!SetTtl(c))
      BY <1>a, <2>1, <2>2
         DEF N!Authenticate, N!SetSid, N!AddSid, N!ReadTtl, N!SetTtl, N!Goes, OnlineAdded, OnlineTypes
    <2>3. CASE o = c /\ ~(N!Authenticate(c) \/ N!SetSid(c) \/ N!AddSid(c) \/ N!ReadTtl(c) \/ N!SetTtl(c))
      BY <1>1, <2>3 DEF N!SocketStep, N!Close, N!Kick, N!Ends, N!GetSid, N!DelSid, N!RemoveSid,
                        N!ReadRest, N!ProbeRest,
                        N!DropStale, N!socket
    <2> QED
      BY <2>1, <2>2, <2>3 DEF SocketFrame
  <1>2. ASSUME NEW o \in Sessions \cup Revokes \cup Monitors, SessionStep(o) \/ RevokeStep(o) \/ MonitorStep(o), 
               OnlineOnly(o)
        PROVE  pc'[c] \in OnlineAdded
    BY <1>a, <1>2, Apart DEF OnlineOnly
  <1>3. CASE N!Tick
    BY <1>3 DEF N!Tick
  <1>4. CASE N!Crash
    BY <1>a, <1>4, Apart DEF N!Crash, OnlineAdded
  <1> QED
    BY <1>a, <1>1, <1>2, <1>3, <1>4, OnlySession, OnlyRevoke, OnlyMonitor
       DEF N!Next, SessionStep, RevokeStep, MonitorStep

LEMMA MembersStep == ASSUME OnlineInv, N!Next PROVE OnlineMembers'
  <1>a. N!OnlineAssumption /\ OnlineTypes /\ OnlineMembers
    BY DEF OnlineInv
  <1>1. \A c \in Sockets : pc[c] \in OnlineAdded => pc'[c] \in OnlineAdded
    BY AddedStays
  <1>2. \A s \in Sessions : \A c \in members'[s] : c \in members[s] \/ (c \in Sockets /\ Owner[c] = s /\ pc'[c] \in OnlineAdded)
    <2>1. ASSUME NEW s \in Sessions, SessionStep(s) PROVE members' = members
      BY <1>a, <2>1, OfSession DEF SessionFrame
    <2>2. ASSUME NEW m \in Monitors, MonitorStep(m) PROVE members' = members
      BY <1>a, <2>2, OfMonitor DEF MonitorFrame
    <2>3. ASSUME NEW r \in Revokes, RevokeStep(r), NEW s \in Sessions
          PROVE  members'[s] \subseteq members[s]
      BY <1>a, <2>3, OfRevoke DEF RevokeFrame
    <2>4. ASSUME NEW c \in Sockets, N!SocketStep(c), NEW s \in Sessions
          PROVE  \A x \in members'[s] : x \in members[s] \/ (x = c /\ Owner[c] = s /\ pc'[c] \in OnlineAdded)
      BY <1>a, <2>4, OfSocket DEF SocketFrame, OnlineAdded
    <2>5. N!Tick \/ N!Crash => \A s \in Sessions : members'[s] \subseteq members[s]
      BY DEF N!Tick, N!Crash, N!keys
    <2> QED
      BY <2>1, <2>2, <2>3, <2>4, <2>5 DEF N!Next, SessionStep, RevokeStep, MonitorStep
  <1>3. \A s \in Sessions : members[s] \subseteq Sockets
    BY <1>a DEF OnlineTypes
  <1> QED
    BY <1>a, <1>1, <1>2, <1>3 DEF OnlineMembers

LEMMA RestsStep == ASSUME OnlineInv, N!Next PROVE Rests'
  <1>a. N!OnlineAssumption /\ OnlineTypes /\ OnlineMembers /\ Rests
    BY DEF OnlineInv
  <1>1. \A c \in Sockets : pc[c] \in OnlineAdded => pc'[c] \in OnlineAdded
    BY AddedStays
  <1>2. ASSUME NEW c \in Sockets, NEW o \in snap'[c] PROVE o \in Sockets /\ pc[o] \in OnlineAdded
    <2>1. ASSUME NEW s \in Sessions, SessionStep(s) PROVE snap'[c] = snap[c]
      BY <1>a, <2>1, OfSession DEF SessionFrame
    <2>2. ASSUME NEW m \in Monitors, MonitorStep(m) PROVE snap'[c] = snap[c]
      BY <1>a, <2>2, OfMonitor DEF MonitorFrame
    <2>3. ASSUME NEW r \in Revokes, RevokeStep(r) PROVE snap'[c] = snap[c]
      BY <1>a, <2>3, OfRevoke DEF RevokeFrame
    <2>4. ASSUME NEW d \in Sockets, N!SocketStep(d)
          PROVE  snap'[c] \subseteq snap[c] \/ snap'[c] = members[Owner[c]]
      <3>1. CASE d # c
        BY <1>a, <2>4, <3>1, OfSocket DEF SocketFrame
      <3>2. CASE d = c /\ (N!ReadRest(c) \/ N!ProbeRest(c) \/ N!DropStale(c))
        <4>1. c \in N!Everybody
          BY <1>a, Apart
        <4>2. CASE N!ReadRest(c)
          BY <1>a, <4>1, <4>2 DEF N!ReadRest, OnlineTypes
        <4>3. CASE N!ProbeRest(c)
          BY <1>a, <4>1, <4>3 DEF N!ProbeRest, OnlineTypes
        <4>4. CASE N!DropStale(c)
          BY <1>a, <4>1, <4>4 DEF N!DropStale, OnlineTypes
        <4> QED
          BY <3>2, <4>2, <4>3, <4>4
      <3>3. CASE d = c /\ ~(N!ReadRest(c) \/ N!ProbeRest(c) \/ N!DropStale(c))
        BY <2>4, <3>3
           DEF N!SocketStep, N!Authenticate, N!SetSid, N!AddSid, N!ReadTtl, N!SetTtl, N!Close, N!Kick, N!Ends, N!GetSid,
                          N!DelSid, N!RemoveSid
      <3> QED
        BY <3>1, <3>2, <3>3
    <2>5. N!Tick \/ N!Crash => snap'[c] \subseteq snap[c]
      BY <1>a, Apart DEF N!Tick, N!Crash
    <2>6. snap'[c] \subseteq snap[c] \/ snap'[c] = members[Owner[c]]
      BY <2>1, <2>2, <2>3, <2>4, <2>5 DEF N!Next, SessionStep, RevokeStep, MonitorStep
    <2>7. Owner[c] \in Sessions /\ members[Owner[c]] \subseteq Sockets
      BY <1>a, Apart DEF OnlineTypes
    <2> QED
      BY <1>a, <1>2, <2>6, <2>7 DEF OnlineMembers, Rests
  <1> QED
    BY <1>1, <1>2 DEF Rests

LEMMA KicksStep == ASSUME OnlineInv, N!Next PROVE Kicks'
  <1>a. N!OnlineAssumption /\ OnlineTypes /\ Revoking /\ Kicks
    BY DEF OnlineInv
  <1>1. ASSUME NEW s \in Sessions, SessionStep(s) PROVE Kicks'
    BY <1>a, <1>1, OfSession DEF Kicks, SessionFrame
  <1>2. ASSUME NEW c \in Sockets, N!SocketStep(c) PROVE Kicks'
    <2>1. SocketFrame(c)
      BY <1>a, <1>2, OfSocket
    <2> QED
      BY <1>a, <2>1 DEF Kicks, SocketFrame
  <1>3. ASSUME NEW m \in Monitors, MonitorStep(m) PROVE Kicks'
    BY <1>a, <1>3, OfMonitor DEF Kicks, MonitorFrame
  <1>4. ASSUME NEW r \in Revokes, RevokeStep(r) PROVE Kicks'
    <2>1. RevokeFrame(r) /\ r \in N!Everybody
      BY <1>a, <1>4, OfRevoke, Apart
    <2>2. /\ pc[r] # "done"
          /\ kick' = kick \/ (kick' = kick \cup snap[r] /\ pc'[r] = "done")
      <3>1. CASE N!StartKicks(r)
        BY <1>a, <2>1, <3>1 DEF N!StartKicks, N!Goes, OnlineTypes
      <3>2. CASE ~N!StartKicks(r)
        BY <1>4, <3>2 DEF RevokeStep, N!ReadSids, N!DeleteKeys, N!RemoveMembers, N!CheckIndex, N!Unlist
      <3> QED
        BY <3>1, <3>2
    <2>3. \A c \in snap[r] : c \in Sockets /\ Owner[c] = About[r]
      BY <1>a DEF Revoking
    <2>4. \A x \in Revokes : pc[x] = "done" => pc'[x] = "done"
      BY <2>1, <2>2 DEF RevokeFrame
    <2> QED
      BY <1>a, <2>2, <2>3, <2>4 DEF Kicks
  <1>5. CASE N!Tick
    BY <1>a, <1>5 DEF N!Tick, Kicks
  <1>6. CASE N!Crash
    BY <1>a, <1>6, Apart DEF N!Crash, Kicks
  <1> QED
    BY <1>1, <1>2, <1>3, <1>4, <1>5, <1>6 DEF N!Next, SessionStep, RevokeStep, MonitorStep

LEMMA RevokingStep == ASSUME OnlineInv, N!Next PROVE Revoking'
  <1>a. N!OnlineAssumption /\ OnlineTypes /\ OnlineMembers /\ Revoking
    BY DEF OnlineInv
  <1>1. ASSUME NEW s \in Sessions, SessionStep(s) PROVE Revoking'
    BY <1>a, <1>1, OfSession DEF Revoking, SessionFrame
  <1>2. ASSUME NEW c \in Sockets, N!SocketStep(c) PROVE Revoking'
    <2>1. SocketFrame(c)
      BY <1>a, <1>2, OfSocket
    <2>2. \A r \in Revokes : About[r] \in Sessions /\ pc'[r] = pc[r] /\ snap'[r] = snap[r]
      BY <1>a, <2>1, Apart DEF SocketFrame
    <2>3. \A r \in Revokes : pc[r] \notin {"idle", "absent"} => members'[About[r]] \subseteq members[About[r]] \cup missed'
      BY <2>1, <2>2 DEF SocketFrame
    <2>4. missed \subseteq missed'
      BY <2>1 DEF SocketFrame
    <2> QED
      BY <1>a, <2>2, <2>3, <2>4 DEF Revoking
  <1>3. ASSUME NEW m \in Monitors, MonitorStep(m) PROVE Revoking'
    BY <1>a, <1>3, OfMonitor DEF Revoking, MonitorFrame, N!history
  <1>4. ASSUME NEW r \in Revokes, RevokeStep(r) PROVE Revoking'
    <2>1. RevokeFrame(r) /\ r \in N!Everybody /\ About[r] \in Sessions
      BY <1>a, <1>4, OfRevoke, Apart
    <2>2. members'[About[r]] \subseteq members[About[r]] /\ missed' = missed
      BY <2>1 DEF RevokeFrame, N!history
    <2>3. \/ pc'[r] = "delete" /\ snap'[r] = members[About[r]]
          \/ pc[r] = "delete" /\ pc'[r] = "srem" /\ snap'[r] = snap[r] /\ members'[About[r]] = {}
          \/ /\ pc[r] \notin {"idle", "absent", "delete"} /\ pc'[r] \notin {"idle", "absent", "delete"}
             /\ snap'[r] = {} \/ (snap'[r] = snap[r] /\ pc'[r] # "done")
      <3>1. CASE N!ReadSids(r)
        BY <1>a, <2>1, <3>1 DEF N!ReadSids, N!Goes, OnlineTypes
      <3>2. CASE N!DeleteKeys(r)
        BY <1>a, <2>1, <3>2 DEF N!DeleteKeys, N!Goes, OnlineTypes
      <3>3. CASE N!RemoveMembers(r) \/ N!CheckIndex(r)
        BY <1>a, <2>1, <3>3 DEF N!RemoveMembers, N!CheckIndex, N!Goes, OnlineTypes
      <3>4. CASE N!Unlist(r) \/ N!StartKicks(r)
        BY <1>a, <2>1, <3>4 DEF N!Unlist, N!StartKicks, N!Goes, OnlineTypes
      <3> QED
        BY <1>4, <3>1, <3>2, <3>3, <3>4 DEF RevokeStep
    <2>4. \A c \in members[About[r]] : c \in Sockets /\ Owner[c] = About[r]
      BY <1>a, <2>1 DEF OnlineMembers, OnlineTypes
    <2>5. /\ \A c \in snap'[r] : c \in Sockets /\ Owner[c] = About[r] /\ pc'[r] \notin {"idle", "absent", "done"}
          /\ pc'[r] = "delete" => members'[About[r]] \subseteq snap'[r] \cup missed'
          /\ pc'[r] \notin {"idle", "absent", "delete"} => members'[About[r]] \subseteq missed'
      BY <1>a, <2>2, <2>3, <2>4 DEF Revoking
    <2>6. \A x \in Revokes \ {r} : /\ pc'[x] = pc[x] /\ snap'[x] = snap[x]
                                   /\ members'[About[x]] \subseteq members[About[x]]
      BY <1>a, <2>1, Apart DEF RevokeFrame
    <2> QED
      BY <1>a, <2>2, <2>5, <2>6 DEF Revoking
  <1>5. CASE N!Tick
    BY <1>a, <1>5, Apart DEF N!Tick, Revoking, N!history
  <1>6. CASE N!Crash
    BY <1>a, <1>6, Apart DEF N!Crash, Revoking, N!keys
  <1> QED
    BY <1>1, <1>2, <1>3, <1>4, <1>5, <1>6 DEF N!Next, SessionStep, RevokeStep, MonitorStep

-----------------------------------------------------------------------------
(* What a connected socket may count on.                                   *)

LEMMA LastsBack ==
    ASSUME OnlineInv, N!Next, NEW c \in Sockets, pc[c] \notin {"idle", "absent"}, Lasts(c)'
    PROVE  Lasts(c) /\ exp'[c] = exp[c]
  <1>a. N!OnlineAssumption /\ OnlineTypes
    BY DEF OnlineInv
  <1>1. ASSUME NEW o \in Sockets, N!SocketStep(o)
        PROVE  (conn'[c] => conn[c]) /\ exp'[c] = exp[c] /\ clock' = clock
    <2>1. SocketFrame(o)
      BY <1>a, <1>1, OfSocket
    <2>2. CASE o = c
      <3>1. CASE N!Close(c) \/ N!Kick(c)
        BY <1>a, <3>1 DEF N!Close, N!Kick, N!Ends, OnlineTypes, N!socket
      <3>2. CASE ~(N!Close(c) \/ N!Kick(c))
        BY <1>1, <2>2, <3>2
           DEF N!SocketStep, N!Authenticate, N!SetSid, N!AddSid, N!ReadTtl, N!SetTtl, N!GetSid, N!DelSid, N!RemoveSid,
                                N!ReadRest, N!ProbeRest, N!DropStale, N!socket
      <3> QED
        BY <2>1, <3>1, <3>2 DEF SocketFrame
    <2> QED
      BY <2>1, <2>2 DEF SocketFrame
  <1>2. ASSUME NEW s \in Sessions, SessionStep(s) PROVE conn' = conn /\ exp' = exp /\ clock' = clock
    BY <1>a, <1>2, OfSession DEF SessionFrame, N!socket
  <1>3. ASSUME NEW r \in Revokes, RevokeStep(r) PROVE conn' = conn /\ exp' = exp /\ clock' = clock
    BY <1>a, <1>3, OfRevoke DEF RevokeFrame, N!socket
  <1>4. ASSUME NEW m \in Monitors, MonitorStep(m) PROVE conn' = conn /\ exp' = exp /\ clock' = clock
    BY <1>a, <1>4, OfMonitor DEF MonitorFrame, N!socket
  <1>5. N!Tick => conn' = conn /\ exp' = exp /\ clock < clock'
    BY DEF N!Tick, N!socket
  <1>6. N!Crash => ~conn'[c]
    BY DEF N!Crash
  <1>7. clock \in Nat /\ exp[c] \in Nat /\ clock' \in Nat
    BY <1>a, OnlineTypesStep DEF OnlineTypes, Times, N!Soon, N!Late
  <1> QED
    BY <1>1, <1>2, <1>3, <1>4, <1>5, <1>6, <1>7 DEF Lasts, N!Next, SessionStep, RevokeStep, MonitorStep

\* A socket that stays connected takes a step of its connect.
LEMMA Connects ==
    ASSUME OnlineInv, NEW c \in Sockets, N!SocketStep(c), conn'[c]
    PROVE  N!Authenticate(c) \/ N!SetSid(c) \/ N!AddSid(c) \/ N!ReadTtl(c) \/ N!SetTtl(c)
  <1>a. OnlineTypes /\ Placed
    BY DEF OnlineInv
  <1>1. ~N!Close(c) /\ ~N!Kick(c)
    BY <1>a DEF N!Close, N!Kick, N!Ends, OnlineTypes, Placed, N!socket
  <1>2. ~N!GetSid(c) /\ ~N!DelSid(c) /\ ~N!RemoveSid(c) /\ ~N!ReadRest(c) /\ ~N!ProbeRest(c) /\ ~N!DropStale(c)
    BY <1>a DEF N!GetSid, N!DelSid, N!RemoveSid, N!ReadRest, N!ProbeRest, N!DropStale, Placed
  <1> QED
    BY <1>1, <1>2 DEF N!SocketStep

LEMMA RevokedLasts == ASSUME OnlineInv, N!Next, NEW s \in Sessions, N!Revoked(s) PROVE N!Revoked(s)'
  <1>a. N!OnlineAssumption /\ OnlineTypes
    BY DEF OnlineInv
  <1>1. \A o \in Sessions : SessionStep(o) => \A r \in Revokes : pc'[r] = pc[r]
    BY <1>a, OfSession DEF SessionFrame
  <1>2. \A o \in Sockets : N!SocketStep(o) => \A r \in Revokes : pc'[r] = pc[r]
    BY <1>a, OfSocket DEF SocketFrame
  <1>3. \A o \in Monitors : MonitorStep(o) => \A r \in Revokes : pc'[r] = pc[r]
    BY <1>a, OfMonitor DEF MonitorFrame
  <1>4. \A o \in Revokes : RevokeStep(o) => \A r \in Revokes : pc'[r] = pc[r] \/ RevokeStep(r)
    BY <1>a, OfRevoke DEF RevokeFrame
  <1>5. N!Tick \/ N!Crash => \A r \in Revokes : pc'[r] = pc[r]
    BY <1>a, Apart DEF N!Tick, N!Crash
  <1>6. \A r \in Revokes : pc'[r] = pc[r] \/ RevokeStep(r)
    BY <1>1, <1>2, <1>3, <1>4, <1>5 DEF N!Next, SessionStep, RevokeStep, MonitorStep
  <1> QED
    BY <1>a, <1>6, RevokedStays

\* Only a disconnect takes a socket out of the hands of who will disconnect it.
LEMMA GoingStays ==
    ASSUME OnlineInv, N!Next, NEW c \in Sockets, Going(c), conn'[c] PROVE Going(c)'
  <1>a. N!OnlineAssumption /\ OnlineTypes
    BY DEF OnlineInv
  <1>1. ASSUME NEW s \in Sessions, SessionStep(s) PROVE Going(c)'
    BY <1>a, <1>1, OfSession DEF Going, SessionFrame
  <1>2. ASSUME NEW o \in Sockets, N!SocketStep(o) PROVE Going(c)'
    <2>1. SocketFrame(o)
      BY <1>a, <1>2, OfSocket
    <2>2. c \in kick => c \in kick'
      <3>1. CASE N!Kick(o)
        <4>1. o # c
          BY <1>2, <3>1, <1>a DEF N!Kick, N!Ends, OnlineTypes, N!socket
        <4> QED
          BY <3>1, <4>1 DEF N!Kick
      <3>2. CASE ~N!Kick(o)
        BY <1>2, <3>2
           DEF N!SocketStep, N!Authenticate, N!SetSid, N!AddSid, N!ReadTtl, N!SetTtl, N!Close, N!GetSid, N!DelSid,
                          N!RemoveSid, N!ReadRest, N!ProbeRest, N!DropStale
      <3> QED
        BY <3>1, <3>2
    <2> QED
      BY <2>1, <2>2 DEF Going, SocketFrame
  <1>3. ASSUME NEW m \in Monitors, MonitorStep(m) PROVE Going(c)'
    BY <1>a, <1>3, OfMonitor DEF Going, MonitorFrame
  <1>4. ASSUME NEW r \in Revokes, RevokeStep(r) PROVE Going(c)'
    <2>1. RevokeFrame(r) /\ r \in N!Everybody
      BY <1>a, <1>4, OfRevoke, Apart
    <2>2. /\ kick \subseteq kick'
          /\ (pc[r] \in {"srem", "check", "unlist", "kick"} /\ c \in snap[r]) =>
                c \in kick' \/ (pc'[r] \in {"srem", "check", "unlist", "kick"} /\ c \in snap'[r])
      <3>1. CASE N!ReadSids(r) \/ N!DeleteKeys(r)
        BY <1>a, <2>1, <3>1 DEF N!ReadSids, N!DeleteKeys, N!Goes, OnlineTypes
      <3>2. CASE N!RemoveMembers(r) \/ N!CheckIndex(r)
        BY <1>a, <2>1, <3>2 DEF N!RemoveMembers, N!CheckIndex, N!Goes, OnlineTypes
      <3>3. CASE N!Unlist(r) \/ N!StartKicks(r)
        BY <1>a, <2>1, <3>3 DEF N!Unlist, N!StartKicks, N!Goes, OnlineTypes
      <3> QED
        BY <1>4, <3>1, <3>2, <3>3 DEF RevokeStep
    <2> QED
      BY <2>1, <2>2 DEF Going, RevokeFrame
  <1>5. CASE N!Tick
    BY <1>5 DEF N!Tick, Going
  <1>6. CASE N!Crash
    BY <1>6 DEF N!Crash
  <1> QED
    BY <1>1, <1>2, <1>3, <1>4, <1>5, <1>6 DEF N!Next, SessionStep, RevokeStep, MonitorStep

LEMMA KeyedStep == ASSUME OnlineInv, N!Next PROVE Keyed'
  <1>a. N!OnlineAssumption /\ OnlineTypes /\ Placed /\ Revoking /\ Keyed
    BY DEF OnlineInv
  <1> SUFFICES ASSUME NEW c \in Sockets, Lasts(c)', pc'[c] \in {"add"} \cup OnlineAdded, ~Going(c)'
               PROVE  sid'[c] = exp'[c]
    BY DEF Keyed
  <1>1. conn'[c] /\ ~Going(c)
    BY GoingStays DEF Lasts
  <1>2. pc[c] \notin {"idle", "absent"} => Lasts(c) /\ exp'[c] = exp[c]
    BY LastsBack
  <1>3. pc[c] \in {"add"} \cup OnlineAdded => sid[c] = exp[c] /\ exp'[c] = exp[c]
    BY <1>a, <1>1, <1>2 DEF Keyed, OnlineAdded
  <1>4. ASSUME NEW s \in Sessions, SessionStep(s) PROVE sid'[c] = exp'[c]
    BY <1>a, <1>3, <1>4, OfSession DEF SessionFrame
  <1>5. ASSUME NEW o \in Sockets, N!SocketStep(o) PROVE sid'[c] = exp'[c]
    <2>1. SocketFrame(o) /\ o \in N!Everybody
      BY <1>a, <1>5, OfSocket, Apart
    <2>2. CASE o # c
      BY <1>3, <2>1, <2>2 DEF SocketFrame
    <2>3. CASE o = c
      <3>1. N!Authenticate(c) \/ N!SetSid(c) \/ N!AddSid(c) \/ N!ReadTtl(c) \/ N!SetTtl(c)
        BY <1>1, <1>5, <2>3, Connects
      <3>2. CASE N!Authenticate(c)
        BY <1>a, <2>1, <2>3, <3>2 DEF N!Authenticate, N!Goes, OnlineTypes, OnlineAdded
      <3>3. CASE N!SetSid(c)
        BY <1>a, <2>1, <2>3, <3>3 DEF N!SetSid, OnlineTypes, N!socket
      <3>4. CASE N!AddSid(c) \/ N!ReadTtl(c) \/ N!SetTtl(c)
        BY <1>3, <3>4 DEF N!AddSid, N!ReadTtl, N!SetTtl, OnlineAdded, N!keys, N!socket
      <3> QED
        BY <3>1, <3>2, <3>3, <3>4
    <2> QED
      BY <2>2, <2>3
  <1>6. ASSUME NEW m \in Monitors, MonitorStep(m) PROVE sid'[c] = exp'[c]
    BY <1>a, <1>3, <1>6, OfMonitor DEF MonitorFrame
  <1>7. ASSUME NEW r \in Revokes, RevokeStep(r) PROVE sid'[c] = exp'[c]
    <2>1. RevokeFrame(r) /\ r \in N!Everybody
      BY <1>a, <1>7, OfRevoke, Apart
    <2>2. N!DeleteKeys(r) /\ c \in snap[r] => Going(c)'
      BY <1>a, <2>1 DEF N!DeleteKeys, N!Goes, OnlineTypes, Going, Revoking
    <2>3. pc[r] = "delete" => N!DeleteKeys(r)
      BY <1>7 DEF RevokeStep, N!ReadSids, N!RemoveMembers, N!CheckIndex, N!Unlist, N!StartKicks
    <2> QED
      BY <1>3, <2>1, <2>2, <2>3 DEF RevokeFrame
  <1>8. CASE N!Tick
    <2>1. clock' = N!Soon /\ pc' = pc /\ sid'[c] = IF sid[c] = N!Soon THEN 0 ELSE sid[c]
      BY <1>8 DEF N!Tick
    <2>2. exp'[c] # N!Soon
      BY <2>1 DEF Lasts, N!Soon
    <2> QED
      BY <1>3, <2>1, <2>2
  <1>9. CASE N!Crash
    BY <1>1, <1>9 DEF N!Crash
  <1> QED
    BY <1>4, <1>5, <1>6, <1>7, <1>8, <1>9 DEF N!Next, SessionStep, RevokeStep, MonitorStep

LEMMA SparedStep == ASSUME OnlineInv, N!Next PROVE Spared'
  <1>a. N!OnlineAssumption /\ OnlineTypes /\ Placed /\ Rests /\ Keyed /\ Spared
    BY DEF OnlineInv
  <1> SUFFICES ASSUME NEW c \in Sockets, NEW o \in Sockets, Lasts(c)', closing'[o] = "drop", c \in snap'[o]
               PROVE  Going(c)'
    BY DEF Spared
  <1>1. c \in snap[o] /\ (closing[o] = "drop" \/ sid[c] = 0)
    <2>1. ASSUME NEW s \in Sessions, SessionStep(s) PROVE closing' = closing /\ snap'[o] = snap[o]
      BY <1>a, <2>1, OfSession DEF SessionFrame, N!socket
    <2>2. ASSUME NEW m \in Monitors, MonitorStep(m) PROVE closing' = closing /\ snap'[o] = snap[o]
      BY <1>a, <2>2, OfMonitor DEF MonitorFrame, N!socket
    <2>3. ASSUME NEW r \in Revokes, RevokeStep(r) PROVE closing' = closing /\ snap'[o] = snap[o]
      BY <1>a, <2>3, OfRevoke DEF RevokeFrame, N!socket
    <2>4. ASSUME NEW d \in Sockets, N!SocketStep(d)
          PROVE  c \in snap[o] /\ (closing[o] = "drop" \/ sid[c] = 0)
      <3>1. SocketFrame(d) /\ o \in N!Everybody
        BY <1>a, <2>4, OfSocket, Apart
      <3>2. CASE d # o
        BY <3>1, <3>2 DEF SocketFrame
      <3>3. CASE d = o /\ N!ProbeRest(o)
        BY <1>a, <3>1, <3>3 DEF N!ProbeRest, OnlineTypes
      <3>4. CASE d = o /\ (N!Authenticate(o) \/ N!SetSid(o) \/ N!AddSid(o) \/ N!ReadTtl(o) \/ N!SetTtl(o))
        BY <3>4 DEF N!Authenticate, N!SetSid, N!AddSid, N!ReadTtl, N!SetTtl, N!socket
      <3>5. CASE d = o /\ (N!Close(o) \/ N!Kick(o))
        BY <1>a, <3>5 DEF N!Close, N!Kick, N!Ends, N!GoesOn, OnlineTypes, N!socket
      <3>6. CASE d = o /\ (N!GetSid(o) \/ N!DelSid(o) \/ N!RemoveSid(o) \/ N!ReadRest(o) \/ N!DropStale(o))
        BY <1>a, <3>6
           DEF N!GetSid, N!DelSid, N!RemoveSid, N!ReadRest, N!DropStale, N!GoesOn, OnlineTypes
      <3> QED
        BY <2>4, <3>2, <3>3, <3>4, <3>5, <3>6 DEF N!SocketStep
    <2>5. N!Tick => closing' = closing /\ snap'[o] = snap[o]
      BY DEF N!Tick, N!socket
    <2>6. ~N!Crash
      BY DEF N!Crash, Lasts
    <2> QED
      BY <2>1, <2>2, <2>3, <2>4, <2>5, <2>6 DEF N!Next, SessionStep, RevokeStep, MonitorStep
  <1>2. pc[c] \in OnlineAdded
    BY <1>a, <1>1 DEF Rests
  <1>3. Lasts(c) /\ exp[c] # 0
    BY <1>a, <1>2, LastsBack DEF OnlineAdded, Placed
  <1>4. Going(c)
    BY <1>a, <1>1, <1>2, <1>3 DEF Spared, Keyed
  <1> QED
    BY <1>4, GoingStays DEF Lasts

LEMMA GroupedStep == ASSUME OnlineInv, N!Next PROVE Grouped'
  <1>a. N!OnlineAssumption /\ OnlineTypes /\ Placed /\ OnlineMembers /\ Revoking /\ Spared /\ Grouped /\ Lasting
    BY DEF OnlineInv
  <1> SUFFICES ASSUME NEW c \in Sockets, Lasts(c)', pc'[c] \in OnlineAdded, c \notin raced', ~Going(c)'
               PROVE  c \in members'[Owner[c]] \/ (c \in missed' /\ N!Revoked(Owner[c])')
    BY DEF Grouped
  <1>1. conn'[c] /\ ~Going(c) /\ Owner[c] \in Sessions
    BY <1>a, GoingStays, Apart DEF Lasts
  <1>2. pc[c] \notin {"idle", "absent"} => Lasts(c) /\ exp'[c] = exp[c]
    BY LastsBack
  <1>3. N!Revoked(Owner[c]) => N!Revoked(Owner[c])'
    BY <1>1, RevokedLasts
  <1>4. pc[c] \in OnlineAdded /\ c \notin raced => c \in members[Owner[c]] \/ (c \in missed /\ N!Revoked(Owner[c]))
    BY <1>a, <1>1, <1>2 DEF Grouped, OnlineAdded
  <1> DEFINE Kept == c \in members'[Owner[c]] \/ (c \in missed' /\ N!Revoked(Owner[c])')
  <1>5. ASSUME NEW s \in Sessions, SessionStep(s) PROVE Kept
    BY <1>a, <1>3, <1>4, <1>5, OfSession DEF SessionFrame
  <1>6. ASSUME NEW m \in Monitors, MonitorStep(m) PROVE Kept
    BY <1>a, <1>3, <1>4, <1>6, OfMonitor DEF MonitorFrame, N!history
  <1>7. ASSUME NEW d \in Sockets, N!SocketStep(d) PROVE Kept
    <2>1. SocketFrame(d) /\ d \in N!Everybody /\ Owner[d] \in Sessions
      BY <1>a, <1>7, OfSocket, Apart
    <2>2. CASE d = c /\ N!AddSid(c)
      BY <1>a, <1>1, <2>2 DEF N!AddSid, OnlineTypes
    <2>3. CASE d = c /\ (N!Authenticate(c) \/ N!SetSid(c))
      BY <1>a, <2>1, <2>3 DEF N!Authenticate, N!SetSid, N!Goes, OnlineTypes, OnlineAdded
    <2>4. pc[c] \in OnlineAdded \/ (d = c /\ (N!AddSid(c) \/ N!Authenticate(c) \/ N!SetSid(c)))
      <3>1. d # c => pc[c] \in OnlineAdded
        BY <2>1 DEF SocketFrame
      <3>2. N!ReadTtl(c) \/ N!SetTtl(c) => pc[c] \in OnlineAdded
        BY DEF N!ReadTtl, N!SetTtl, OnlineAdded
      <3> QED
        BY <1>1, <1>7, <3>1, <3>2, Connects
    <2>5. CASE pc[c] \in OnlineAdded /\ ~(d = c /\ (N!AddSid(c) \/ N!Authenticate(c) \/ N!SetSid(c)))
      <3>1. missed \subseteq missed' /\ raced \subseteq raced'
        BY <2>1 DEF SocketFrame
      <3>2. c \in members[Owner[c]] => c \in members'[Owner[c]]
        <4>1. CASE N!RemoveSid(d)
          <5>1. d # c
            BY <1>1, <4>1, <1>a, <1>7, Connects
               DEF N!RemoveSid, Placed, N!Authenticate, N!SetSid, N!AddSid, N!ReadTtl, N!SetTtl
          <5> QED
            BY <1>a, <1>1, <4>1, <5>1 DEF N!RemoveSid, N!Without, OnlineTypes
        <4>2. CASE N!DropStale(d)
          <5>1. c \notin snap[d]
            BY <1>a, <1>1, <1>2, <2>5, <4>2 DEF N!DropStale, Spared, OnlineAdded
          <5> QED
            BY <1>a, <1>1, <4>2, <5>1 DEF N!DropStale, N!Without, OnlineTypes
        <4>3. CASE N!AddSid(d)
          BY <1>a, <1>1, <2>1, <4>3 DEF N!AddSid, OnlineTypes
        <4>4. CASE N!Authenticate(d) \/ N!SetSid(d) \/ N!ReadTtl(d) \/ N!SetTtl(d)
          BY <4>4 DEF N!Authenticate, N!SetSid, N!ReadTtl, N!SetTtl, N!keys
        <4>5. CASE N!Close(d) \/ N!Kick(d)
          BY <4>5 DEF N!Close, N!Kick, N!Ends, N!keys
        <4>6. CASE N!GetSid(d) \/ N!DelSid(d) \/ N!ReadRest(d) \/ N!ProbeRest(d)
          BY <4>6 DEF N!GetSid, N!DelSid, N!ReadRest, N!ProbeRest, N!keys
        <4> QED
          BY <1>7, <4>1, <4>2, <4>3, <4>4, <4>5, <4>6 DEF N!SocketStep
      <3> QED
        BY <1>3, <1>4, <2>5, <3>1, <3>2
    <2> QED
      BY <2>2, <2>3, <2>4, <2>5
  <1>8. ASSUME NEW r \in Revokes, RevokeStep(r) PROVE Kept
    <2>1. RevokeFrame(r) /\ r \in N!Everybody
      BY <1>a, <1>8, OfRevoke, Apart
    <2>2. missed' = missed /\ raced' = raced /\ pc'[c] = pc[c]
      BY <2>1 DEF RevokeFrame, N!history
    <2>3. CASE members'[Owner[c]] = members[Owner[c]]
      BY <1>3, <1>4, <2>2, <2>3
    <2>4. CASE c \in members[Owner[c]] /\ members'[Owner[c]] = {} /\ Owner[c] = About[r] /\ pc[r] = "delete"
      <3>1. N!DeleteKeys(r)
        BY <1>8, <2>4 DEF RevokeStep, N!ReadSids, N!RemoveMembers, N!CheckIndex, N!Unlist, N!StartKicks
      <3>2. pc'[r] = "srem" /\ snap'[r] = snap[r]
        BY <1>a, <2>1, <3>1 DEF N!DeleteKeys, N!Goes, OnlineTypes
      <3>3. c \notin snap[r]
        BY <2>4, <3>2 DEF Going
      <3>4. c \in missed
        BY <1>a, <2>4, <3>3 DEF Revoking
      <3>5. N!Revoked(Owner[c])'
        BY <2>4, <3>2 DEF N!Revoked
      <3> QED
        BY <2>2, <3>4, <3>5
    <2> QED
      BY <1>1, <1>3, <1>4, <2>1, <2>2, <2>3, <2>4 DEF RevokeFrame
  <1>9. CASE N!Tick
    <2>1. /\ pc' = pc /\ missed' = missed /\ raced' = raced /\ clock' = N!Soon
          /\ pc[c] \in {"idle", "absent", "open"}
          /\ members'[Owner[c]] = IF ttl[Owner[c]] = N!Soon THEN {} ELSE members[Owner[c]]
      BY <1>1, <1>9 DEF N!Tick, N!history
    <2>2. pc[c] = "open" /\ Lasts(c) /\ exp'[c] = exp[c]
      BY <1>2, <2>1 DEF OnlineAdded
    <2>3. exp[c] > N!Soon /\ exp[c] \in Times /\ ttl[Owner[c]] \in Times
      BY <1>a, <1>1, <2>1, <2>2 DEF Lasts, OnlineTypes
    <2>4. c \in members[Owner[c]] => ttl[Owner[c]] >= exp[c]
      BY <1>a, <2>1, <2>2 DEF Lasting
    <2>5. c \in members[Owner[c]] => ttl[Owner[c]] # N!Soon
      BY <2>3, <2>4 DEF Times, N!Soon, N!Late
    <2> QED
      BY <1>3, <1>4, <2>1, <2>2, <2>5 DEF OnlineAdded
  <1>10. CASE N!Crash
    BY <1>1, <1>10 DEF N!Crash
  <1> QED
    BY <1>5, <1>6, <1>7, <1>8, <1>9, <1>10 DEF N!Next, SessionStep, RevokeStep, MonitorStep

LEMMA LastingStep == ASSUME OnlineInv, N!Next PROVE Lasting'
  <1>a. N!OnlineAssumption /\ OnlineTypes /\ Placed /\ Lasting
    BY DEF OnlineInv
  <1> SUFFICES ASSUME NEW c \in Sockets, Lasts(c)', pc'[c] = "open", c \notin raced', c \in members'[Owner[c]]
               PROVE  ttl'[Owner[c]] >= exp'[c]
    BY DEF Lasting
  <1>1. conn'[c] /\ Owner[c] \in Sessions /\ c \in N!Everybody
    BY <1>a, Apart DEF Lasts
  <1>2. pc[c] \notin {"idle", "absent"} => Lasts(c) /\ exp'[c] = exp[c]
    BY LastsBack
  <1>3. pc[c] = "open" /\ c \notin raced /\ c \in members[Owner[c]] => ttl[Owner[c]] >= exp[c] /\ exp'[c] = exp[c]
    BY <1>a, <1>2 DEF Lasting
  <1>4. ASSUME NEW s \in Sessions, SessionStep(s) PROVE ttl'[Owner[c]] >= exp'[c]
    BY <1>a, <1>3, <1>4, OfSession DEF SessionFrame
  <1>5. ASSUME NEW m \in Monitors, MonitorStep(m) PROVE ttl'[Owner[c]] >= exp'[c]
    BY <1>a, <1>3, <1>5, OfMonitor DEF MonitorFrame, N!history
  <1>6. ASSUME NEW r \in Revokes, RevokeStep(r) PROVE ttl'[Owner[c]] >= exp'[c]
    <2>1. RevokeFrame(r)
      BY <1>a, <1>6, OfRevoke
    <2> QED
      BY <1>1, <1>3, <2>1 DEF RevokeFrame, N!history
  <1>7. ASSUME NEW d \in Sockets, N!SocketStep(d) PROVE ttl'[Owner[c]] >= exp'[c]
    <2>1. SocketFrame(d) /\ d \in N!Everybody /\ Owner[d] \in Sessions
      BY <1>a, <1>7, OfSocket, Apart
    <2>2. CASE N!SetTtl(d)
      <3>1. /\ members' = members /\ exp' = exp
            /\ ttl' = [ttl EXCEPT ![Owner[d]] = IF members[Owner[d]] = {} THEN 0 ELSE N!NewTtl(d)]
            /\ raced' = IF ttl[Owner[d]] # read[d] THEN raced \cup {o \in Sockets : Owner[o] = Owner[d]} ELSE raced
        BY <2>2 DEF N!SetTtl, N!socket
      <3>2. exp[d] \in Nat /\ read[d] \in Nat
        BY <1>a DEF OnlineTypes, Times, N!Soon, N!Late
      <3>3. N!NewTtl(d) >= read[d] /\ N!NewTtl(d) >= exp[d]
        BY <3>2 DEF N!NewTtl
      <3>4. CASE Owner[d] # Owner[c]
        BY <1>a, <1>1, <1>3, <2>1, <3>1, <3>4 DEF SocketFrame, OnlineTypes
      <3>5. CASE Owner[d] = Owner[c]
        <4>1. ttl'[Owner[c]] = N!NewTtl(d) /\ read[d] = ttl[Owner[c]] /\ c \notin raced
          BY <1>a, <1>1, <2>1, <3>1, <3>5 DEF OnlineTypes, SocketFrame
        <4>2. CASE d = c
          BY <3>1, <3>3, <4>1, <4>2
        <4>3. CASE d # c
          <5>1. ttl[Owner[c]] >= exp[c] /\ exp'[c] = exp[c]
            BY <1>3, <2>1, <3>1, <4>1, <4>3 DEF SocketFrame
          <5>2. exp[c] \in Nat /\ ttl[Owner[c]] \in Nat /\ N!NewTtl(d) \in Nat
            BY <1>a, <1>1, <3>2 DEF OnlineTypes, Times, N!Soon, N!Late, N!NewTtl
          <5> QED
            BY <3>3, <4>1, <5>1, <5>2
        <4> QED
          BY <4>2, <4>3
      <3> QED
        BY <3>4, <3>5
    <2>3. CASE ~N!SetTtl(d)
      <3>1. pc[c] = "open"
        <4>1. CASE d = c
          BY <1>a, <1>1, <1>7, <2>3, <4>1, Connects
             DEF N!Authenticate, N!SetSid, N!AddSid, N!ReadTtl, N!Goes, OnlineTypes
        <4> QED
          BY <2>1, <4>1 DEF SocketFrame
      <3>2. c \notin raced /\ c \in members[Owner[c]]
        BY <1>1, <2>1, <3>1 DEF SocketFrame
      <3>3. ttl'[Owner[c]] = ttl[Owner[c]]
        <4>1. CASE N!RemoveSid(d)
          <5>1. N!Without(Owner[d], {d})
            BY <4>1 DEF N!RemoveSid
          <5> QED
            BY <1>a, <1>1, <2>1, <5>1 DEF N!Without, OnlineTypes
        <4>2. CASE N!DropStale(d)
          <5>1. N!Without(Owner[d], snap[d])
            BY <4>2 DEF N!DropStale
          <5> QED
            BY <1>a, <1>1, <2>1, <5>1 DEF N!Without, OnlineTypes
        <4>3. CASE N!Authenticate(d) \/ N!SetSid(d) \/ N!AddSid(d) \/ N!ReadTtl(d)
          BY <4>3 DEF N!Authenticate, N!SetSid, N!AddSid, N!ReadTtl, N!keys
        <4>4. CASE N!Close(d) \/ N!Kick(d)
          BY <4>4 DEF N!Close, N!Kick, N!Ends, N!keys
        <4>5. CASE N!GetSid(d) \/ N!DelSid(d) \/ N!ReadRest(d) \/ N!ProbeRest(d)
          BY <4>5 DEF N!GetSid, N!DelSid, N!ReadRest, N!ProbeRest, N!keys
        <4> QED
          BY <1>7, <2>3, <4>1, <4>2, <4>3, <4>4, <4>5 DEF N!SocketStep
      <3> QED
        BY <1>3, <3>1, <3>2, <3>3
    <2> QED
      BY <2>2, <2>3
  <1>8. CASE N!Tick
    <2>1. /\ pc' = pc /\ raced' = raced /\ exp' = exp
          /\ members'[Owner[c]] = IF ttl[Owner[c]] = N!Soon THEN {} ELSE members[Owner[c]]
          /\ ttl'[Owner[c]] = IF ttl[Owner[c]] = N!Soon THEN 0 ELSE ttl[Owner[c]]
      BY <1>1, <1>8 DEF N!Tick, N!history, N!socket
    <2> QED
      BY <1>3, <2>1
  <1>9. CASE N!Crash
    BY <1>1, <1>9 DEF N!Crash
  <1> QED
    BY <1>4, <1>5, <1>6, <1>7, <1>8, <1>9 DEF N!Next, SessionStep, RevokeStep, MonitorStep

-----------------------------------------------------------------------------
(* The theorems.                                                           *)

LEMMA OnlineInitInv == N!OnlineAssumption /\ N!Init => OnlineInv
  <1> SUFFICES ASSUME N!OnlineAssumption, N!Init PROVE OnlineInv
    OBVIOUS
  <1>1. \A o \in N!Everybody : pc[o] \in {"idle", "absent"}
    BY DEF N!Init
  <1>2. /\ \A s \in Sessions : token[s] = 0 /\ members[s] = {}
        /\ \A c \in Sockets : conn[c] = FALSE /\ closing[c] = "no" /\ exp[c] = 0 /\ sid[c] = 0
        /\ \A o \in N!Everybody : snap[o] = {}
        /\ kick = {} /\ users = FALSE
    BY DEF N!Init
  <1>3. OnlineTypes
    BY DEF N!Init, OnlineTypes, Times, N!Soon, N!Late
  <1>4. OnlineEnded /\ Watched /\ Revoking
    BY <1>1, <1>2, Apart DEF OnlineEnded, Watched, Revoking, N!Revoked, NoToken
  <1>5. Placed /\ OnlineMembers /\ Rests /\ Kicks
    BY <1>1, <1>2, Apart DEF Placed, OnlineMembers, Rests, Kicks
  <1>6. Keyed /\ Spared /\ Grouped /\ Lasting
    BY <1>2 DEF Keyed, Spared, Grouped, Lasting, Lasts
  <1> QED
    BY <1>3, <1>4, <1>5, <1>6 DEF OnlineInv

LEMMA OnlineStepInv == OnlineInv /\ [N!Next]_N!vars => OnlineInv'
  <1> SUFFICES ASSUME OnlineInv, [N!Next]_N!vars PROVE OnlineInv'
    OBVIOUS
  <1>1. CASE N!Next
    <2>1. OnlineTypes' /\ OnlineEnded' /\ Watched' /\ Placed'
      BY <1>1, OnlineTypesStep, EndedStep, WatchedStep, PlacedStep
    <2>2. OnlineMembers' /\ Rests' /\ Kicks' /\ Revoking'
      BY <1>1, MembersStep, RestsStep, KicksStep, RevokingStep
    <2>3. Keyed' /\ Spared' /\ Grouped' /\ Lasting'
      BY <1>1, KeyedStep, SparedStep, GroupedStep, LastingStep
    <2> QED
      BY <2>1, <2>2, <2>3 DEF OnlineInv
  <1>2. CASE UNCHANGED N!vars
    <2> USE <1>2 DEF N!vars, N!keys, N!socket, N!history, N!left, OnlineInv
    <2>1. OnlineTypes'
      BY DEF OnlineTypes
    <2>2. OnlineEnded' /\ Watched' /\ Placed'
      BY DEF OnlineEnded, Watched, Placed, N!Revoked, NoToken
    <2>3. OnlineMembers' /\ Rests' /\ Kicks' /\ Revoking'
      BY DEF OnlineMembers, Rests, Kicks, Revoking
    <2>4. Keyed' /\ Spared' /\ Grouped' /\ Lasting'
      BY DEF Keyed, Spared, Grouped, Lasting, Lasts, Going, N!Revoked
    <2> QED
      BY <2>1, <2>2, <2>3, <2>4
  <1> QED
    BY <1>1, <1>2

\* OnlineInv is inductive.
THEOREM OnlineInvariant == N!OnlineAssumption /\ N!Spec => []OnlineInv
  BY OnlineInitInv, OnlineStepInv, PTL DEF N!Spec

LEMMA Offline == OnlineInv => N!RevokedOffline
  <1> SUFFICES ASSUME OnlineInv, NEW c \in Sockets, NEW r \in Revokes,
                      N!Open(c), About[r] = Owner[c], pc[r] = "done", c \notin kick, c \notin missed, N!Fresh(c)
               PROVE  \E q \in Revokes : About[q] = Owner[c] /\ pc[q] # "done" /\ c \in snap[q]
    BY DEF N!RevokedOffline
  <1>1. Lasts(c) /\ pc[c] \in OnlineAdded /\ c \notin raced
    BY DEF N!Open, N!Fresh, Lasts, OnlineAdded
  <1>2. members[About[r]] \subseteq missed
    BY DEF OnlineInv, Revoking
  <1>3. Going(c)
    BY <1>1, <1>2 DEF OnlineInv, Grouped
  <1> QED
    BY <1>3 DEF Going

LEMMA ShownTrue == OnlineInv => N!OnlineTrue
  <1> SUFFICES ASSUME OnlineInv, NEW s \in Sessions
               PROVE  LET own == {c \in Sockets : Owner[c] = s}
                      IN /\ N!Online(s) => \E c \in own : conn[c] \/ closing[c] \notin {"no", "end"} \/ c \in cut
                         /\ (\E c \in own : N!Open(c) /\ N!Fresh(c)) /\ token[s] # 0 => N!Online(s)
    BY DEF N!OnlineTrue
  <1>a. OnlineTypes /\ OnlineEnded /\ Placed /\ OnlineMembers /\ Kicks /\ Keyed /\ Grouped
    BY DEF OnlineInv
  <1>1. ASSUME NEW c \in Sockets, Owner[c] = s, N!Shown(c)
        PROVE  conn[c] \/ closing[c] \notin {"no", "end"} \/ c \in cut
    <2>1. pc[c] \in OnlineAdded /\ sid[c] # 0
      BY <1>a, <1>1 DEF N!Shown, OnlineMembers
    <2> QED
      BY <1>a, <2>1 DEF Placed, OnlineAdded
  <1>2. ASSUME NEW c \in Sockets, Owner[c] = s, N!Open(c), N!Fresh(c), token[s] # 0
        PROVE  N!Shown(c)
    <2>1. Lasts(c) /\ pc[c] \in OnlineAdded /\ c \notin raced
      BY <1>2 DEF N!Open, N!Fresh, Lasts, OnlineAdded
    <2>2. ~N!Revoked(s)
      BY <1>a, <1>2 DEF OnlineEnded
    <2>3. ~Going(c)
      BY <1>a, <1>2, <2>2 DEF Going, Kicks, N!Revoked
    <2>4. c \in members[Owner[c]]
      BY <1>a, <1>2, <2>1, <2>2, <2>3 DEF Grouped
    <2>5. sid[c] = exp[c] /\ exp[c] # 0
      BY <1>a, <2>1, <2>3 DEF Keyed, Placed, OnlineAdded
    <2> QED
      BY <2>4, <2>5 DEF N!Shown
  <1> QED
    BY <1>1, <1>2 DEF N!Online

LEMMA Listed == OnlineInv => N!UserListed
  BY DEF OnlineInv, Watched, N!UserListed, NoToken

\* No socket of a revoked session stays connected, a session is shown online
\* exactly when one of its sockets is, and a user with a session is on the
\* list, but for what the three say of the steps that come in between.
THEOREM OnlineSocketsFollow == N!OnlineAssumption /\ N!Spec => [](N!RevokedOffline /\ N!OnlineTrue /\ N!UserListed)
  <1>1. OnlineInv => N!RevokedOffline /\ N!OnlineTrue /\ N!UserListed
    BY Offline, ShownTrue, Listed
  <1> QED
    BY <1>1, OnlineInvariant, PTL

\* A behaviour of the sockets is one of OnlineSessions.
LEMMA OnlinePart == Spec /\ part = "online" => N!Spec
  <1>1. Init /\ part = "online" => N!Init
    BY DEF Init
  <1>2. [Next]_vars /\ part = "online" => [N!Next]_N!vars /\ (part = "online")'
    BY DEF Next, RowsStep, LoginStep, Oauth2Step, PluginsStep, OnlineStep, OrderStep, vars, onlineOwn,
           N!vars,
           N!keys, N!socket, N!left, N!history
  <1> QED
    BY <1>1, <1>2, PTL DEF Spec, N!Spec

\* The sockets of a revoked session are disconnected, and the monitor shows who
\* is connected and who has a session (socketio/server.py, token.py, online.py).
THEOREM ServicesSocketsFollow == Spec => []SocketsFollow
  <1>1. N!OnlineAssumption
    BY ServicesAssumption
  <1>2. [Next]_vars /\ part # "online" => (part # "online")'
    BY OnePart
  <1>3. /\ N!RevokedOffline /\ N!OnlineTrue /\ N!UserListed => SocketsFollow
        /\ part # "online" => SocketsFollow
    BY DEF SocketsFollow
  <1>4. Spec /\ part = "online" => N!Spec
    BY OnlinePart
  <1>5. N!OnlineAssumption /\ N!Spec => [](N!RevokedOffline /\ N!OnlineTrue /\ N!UserListed)
    BY OnlineSocketsFollow
  <1>6. Spec /\ part # "online" => []SocketsFollow
    BY <1>2, <1>3, PTL DEF Spec
  <1>7. Spec /\ part = "online" => []SocketsFollow
    BY <1>1, <1>3, <1>4, <1>5, PTL
  <1> QED
    BY <1>6, <1>7

-----------------------------------------------------------------------------
(* The order of plugins.                                                   *)

OrderTypes ==
    /\ plugins \in Lists
    /\ turn \in 1..(Len(plugins) + 1)
    /\ visiting \in Seq(Packages)
    /\ met \in [Packages -> Nat]
    /\ ordered_plugins \in Seq(Packages)
    /\ refused \in {"missing", "circle", None}

\* The path of open visits: of known plugins, none of them twice or visited
\* already; and whatever the ranks of an order, they fall along the path.
Path ==
    /\ W!Distinct(visiting)
    /\ \A i \in DOMAIN visiting : visiting[i] \in W!Known /\ ~W!Visited(visiting[i])
    /\ \A rank \in W!Ranks : \A i, j \in DOMAIN visiting : i < j => rank[visiting[j]] < rank[visiting[i]]

\* What an open visit has met is visited, but for the last, which may be the next
\* on the path.
Met ==
    \A i \in DOMAIN visiting :
        /\ met[visiting[i]] <= Len(W!DependsOn(visiting[i]))
        /\ \A d \in 1..met[visiting[i]] :
              \/ W!Visited(W!DependsOn(visiting[i])[d])
              \/ d = met[visiting[i]] /\ i < Len(visiting) /\ visiting[i + 1] = W!DependsOn(visiting[i])[d]

\* Nothing is met by a visit that has not begun.
Unmet == \A n \in Packages : ~W!Visited(n) /\ ~W!In(n, visiting) => met[n] = 0

Sorted ==
    /\ W!Distinct(ordered_plugins)
    /\ \A i \in DOMAIN ordered_plugins :
          /\ ordered_plugins[i] \in W!Known
          /\ \A d \in DOMAIN W!DependsOn(ordered_plugins[i]) :
                \E j \in 1..(i - 1) : ordered_plugins[j] = W!DependsOn(ordered_plugins[i])[d]

\* A plugin whose turn has been is visited, or its visit is the outermost.
Turned ==
    \A i \in 1..(turn - 1) :
        \/ W!Visited(plugins[i].name)
        \/ i = turn - 1 /\ visiting # <<>> /\ visiting[1] = plugins[i].name

OrderInv == OrderTypes /\ Path /\ Met /\ Unmet /\ Sorted /\ Turned /\ (refused # None => W!Ranks = {})

LEMMA KnownTypes ==
    ASSUME W!OrderAssumption, OrderTypes
    PROVE  /\ plugins \in Seq(W!Plugin)
           /\ \A i \in DOMAIN plugins : plugins[i].name \in W!Known
           /\ \A n \in W!Known : n \in Packages /\ W!DependsOn(n) \in Seq(Packages)
<1>1. plugins \in Seq(W!Plugin)
    BY DEF W!OrderAssumption, OrderTypes
<1>2. \A i \in DOMAIN plugins : plugins[i] \in W!Plugin
    BY <1>1
<1>3. \A p \in W!Plugin : p.name \in Packages /\ p.depends_on \in Seq(Packages)
    BY DEF W!Plugin
<1>4. ASSUME NEW n \in W!Known
      PROVE  n \in Packages /\ W!DependsOn(n) \in Seq(Packages)
    <2>1. PICK i \in DOMAIN plugins : plugins[i].name = n
        BY DEF W!Known
    <2>2. (CHOOSE j \in DOMAIN plugins : plugins[j].name = n) \in DOMAIN plugins
        BY <2>1
    <2>3. QED
        BY <1>2, <1>3, <2>1, <2>2 DEF W!DependsOn
<1>5. QED
    BY <1>1, <1>4 DEF W!Known

\* A step that keeps the list keeps what the plugins are.
LEMMA SamePlugins ==
    ASSUME plugins' = plugins
    PROVE  /\ W!Known' = W!Known /\ W!Ranks' = W!Ranks
           /\ \A n : W!DependsOn(n)' = W!DependsOn(n)
<1>1. W!Known' = W!Known
    BY DEF W!Known
<1>2. \A n : W!DependsOn(n)' = W!DependsOn(n)
    BY DEF W!DependsOn
<1>3. QED
    BY <1>1, <1>2 DEF W!Ranks

LEMMA OrderInit == W!OrderAssumption /\ W!Init => OrderInv
<1> SUFFICES ASSUME W!OrderAssumption, W!Init PROVE OrderInv
    OBVIOUS
<1>1. plugins \in Seq(W!Plugin)
    BY DEF W!OrderAssumption, W!Init
<1>2. Len(plugins) \in Nat
    BY <1>1
<1>3. OrderTypes
    BY <1>2 DEF W!Init, OrderTypes
<1>4. visiting = <<>> /\ ordered_plugins = <<>> /\ DOMAIN visiting = {} /\ DOMAIN ordered_plugins = {}
    BY DEF W!Init
<1>5. Path /\ Met /\ Sorted
    BY <1>4 DEF Path, Met, Sorted, W!Distinct
<1>6. Unmet
    BY DEF W!Init, Unmet
<1>7. Turned
    BY DEF W!Init, Turned
<1>8. QED
    BY <1>3, <1>5, <1>6, <1>7 DEF OrderInv, W!Init

\* The visit of n begins inside those of the path, when each plugin of the path
\* depends on the next.
LEMMA Entered ==
    ASSUME W!OrderAssumption, OrderInv, NEW n \in W!Known, W!Enter(n), ~W!In(n, visiting),
           visiting # <<>> => \A rank \in W!Ranks : rank[n] < rank[W!Innermost],
           UNCHANGED <<plugins, ordered_plugins>>
    PROVE  /\ visiting' \in Seq(Packages) /\ Path'
           /\ Len(visiting') = IF W!Visited(n) THEN Len(visiting) ELSE Len(visiting) + 1
           /\ \A i \in DOMAIN visiting : i \in DOMAIN visiting' /\ visiting'[i] = visiting[i]
           /\ W!Visited(n) \/ visiting'[Len(visiting) + 1] = n
           /\ \A i \in DOMAIN visiting' : i \in DOMAIN visiting \/ (i = Len(visiting) + 1 /\ visiting'[i] = n)
<1>1. /\ visiting \in Seq(Packages) /\ n \in Packages
      /\ W!Distinct(visiting) /\ \A i \in DOMAIN visiting : visiting[i] \in W!Known /\ ~W!Visited(visiting[i])
    BY KnownTypes DEF OrderInv, OrderTypes, Path
<1>2. /\ visiting' \in Seq(Packages)
      /\ Len(visiting') = IF W!Visited(n) THEN Len(visiting) ELSE Len(visiting) + 1
      /\ \A i \in DOMAIN visiting : i \in DOMAIN visiting' /\ visiting'[i] = visiting[i]
      /\ W!Visited(n) \/ visiting'[Len(visiting) + 1] = n
      /\ \A i \in DOMAIN visiting' :
            i \in DOMAIN visiting \/ (i = Len(visiting) + 1 /\ visiting'[i] = n /\ ~W!Visited(n))
    BY <1>1 DEF W!Enter
<1>3. W!Distinct(visiting)'
    BY <1>1, <1>2 DEF W!Distinct, W!In
<1>4. \A i \in DOMAIN visiting' : visiting'[i] \in W!Known' /\ ~W!Visited(visiting[i])'
    BY <1>1, <1>2, SamePlugins DEF W!Visited
<1>5. ASSUME NEW rank \in W!Ranks, NEW i \in DOMAIN visiting', NEW j \in DOMAIN visiting', i < j
      PROVE  rank[visiting'[j]] < rank[visiting'[i]]
    <2>1. i \in DOMAIN visiting
        BY <1>1, <1>2, <1>5
    <2>2. rank[visiting[i]] \in Nat /\ rank[n] \in Nat /\ rank[W!Innermost] \in Nat
        <3>1. plugins \in Seq(W!Plugin)
            BY DEF W!OrderAssumption, OrderInv, OrderTypes
        <3>2. rank \in [W!Known -> DOMAIN plugins] /\ DOMAIN plugins \subseteq Nat
            BY <1>5, <3>1 DEF W!Ranks
        <3>3. visiting[i] \in W!Known /\ W!Innermost \in W!Known
            BY <1>1, <2>1 DEF W!Innermost
        <3>4. QED
            BY <3>2, <3>3
    <2>3. CASE j \in DOMAIN visiting
        BY <1>2, <1>5, <2>1, <2>3 DEF OrderInv, Path
    <2>4. CASE j = Len(visiting) + 1 /\ visiting'[j] = n
        <3>1. visiting # <<>> /\ rank[n] < rank[W!Innermost]
            BY <1>1, <2>1
        <3>2. i = Len(visiting) \/ rank[W!Innermost] < rank[visiting[i]]
            BY <1>1, <2>1 DEF OrderInv, Path, W!Innermost
        <3>3. QED
            BY <1>2, <2>1, <2>2, <2>4, <3>1, <3>2 DEF W!Innermost
    <2>5. QED
        BY <1>2, <2>3, <2>4
<1>6. Path'
    BY <1>3, <1>4, <1>5, SamePlugins DEF Path
<1>7. QED
    BY <1>2, <1>6

LEMMA NextKeeps == ASSUME W!OrderAssumption, OrderInv, W!VisitNext PROVE OrderInv'
<1>1. /\ plugins \in Seq(W!Plugin) /\ turn \in Nat /\ turn \in DOMAIN plugins
      /\ plugins[turn].name \in W!Known /\ visiting = <<>> /\ DOMAIN visiting = {}
    <2>1. plugins \in Seq(W!Plugin) /\ turn \in 1..(Len(plugins) + 1) /\ turn <= Len(plugins)
        BY KnownTypes DEF OrderInv, OrderTypes, W!VisitNext
    <2>2. turn \in DOMAIN plugins /\ turn \in Nat
        BY <2>1
    <2>3. QED
        BY <2>1, <2>2, KnownTypes DEF OrderInv, W!VisitNext
<1> DEFINE n == plugins[turn].name
<1>2. /\ W!Known' = W!Known /\ W!Ranks' = W!Ranks /\ \A x : W!DependsOn(x)' = W!DependsOn(x)
      /\ \A x : W!Visited(x)' = W!Visited(x)
    BY SamePlugins DEF W!VisitNext, W!Visited
<1>3. /\ visiting' \in Seq(Packages) /\ Path'
      /\ Len(visiting') = IF W!Visited(n) THEN 0 ELSE 1
      /\ W!Visited(n) \/ visiting'[1] = n
      /\ \A i \in DOMAIN visiting' : i = 1 /\ visiting'[i] = n /\ ~W!Visited(n)
    <2>1. UNCHANGED <<plugins, ordered_plugins>> /\ W!Enter(n) /\ ~W!In(n, visiting)
        BY <1>1 DEF W!VisitNext, W!In
    <2>2. QED
        BY <1>1, <2>1, Entered
<1> HIDE DEF n
<1>4. OrderTypes'
    BY <1>1, <1>3 DEF W!VisitNext, OrderInv, OrderTypes
<1>5. Unmet'
    BY <1>2, <1>1 DEF W!VisitNext, OrderInv, Unmet, W!In
<1>6. Met'
    <2>1. \A i \in DOMAIN visiting' : met'[visiting'[i]] = 0 /\ visiting'[i] \in W!Known
        BY <1>1, <1>3, KnownTypes DEF W!VisitNext, OrderInv, Unmet, W!In, n
    <2>2. ASSUME NEW x \in W!Known PROVE Len(W!DependsOn(x)) \in Nat
        BY KnownTypes DEF OrderInv
    <2>3. QED
        BY <1>2, <2>1, <2>2 DEF Met
<1>7. Sorted'
    BY <1>2 DEF W!VisitNext, OrderInv, Sorted, W!Distinct
<1>8. Turned'
    <2>1. ASSUME NEW i \in 1..turn, ~W!Visited(plugins[i].name)
          PROVE  i = turn /\ visiting' # <<>> /\ visiting'[1] = plugins[i].name
        <3>1. i = turn
            BY <1>1, <2>1 DEF OrderInv, Turned
        <3>2. ~W!Visited(n) /\ n = plugins[i].name
            BY <2>1, <3>1 DEF n
        <3>3. Len(visiting') = 1 /\ visiting'[1] = n
            BY <1>3, <3>2
        <3>4. visiting' # <<>>
            BY <3>3
        <3>5. QED
            BY <3>1, <3>2, <3>3, <3>4
    <2>2. QED
        BY <1>1, <1>2, <2>1 DEF Turned, W!VisitNext
<1>9. QED
    BY <1>2, <1>3, <1>4, <1>5, <1>6, <1>7, <1>8 DEF OrderInv, W!VisitNext

\* The innermost visit, and the dependency it meets.
LEMMA AtDependency ==
    ASSUME W!OrderAssumption, OrderInv, visiting # <<>>
    PROVE  /\ visiting \in Seq(Packages) /\ Len(visiting) \in DOMAIN visiting
           /\ W!Innermost \in W!Known /\ W!Innermost \in Packages /\ ~W!Visited(W!Innermost)
           /\ W!DependsOn(W!Innermost) \in Seq(Packages)
           /\ met[W!Innermost] \in Nat /\ met[W!Innermost] <= Len(W!DependsOn(W!Innermost))
<1>1. visiting \in Seq(Packages) /\ Len(visiting) \in DOMAIN visiting
    BY DEF OrderInv, OrderTypes
<1>2. W!Innermost \in W!Known /\ ~W!Visited(W!Innermost) /\ met[W!Innermost] <= Len(W!DependsOn(W!Innermost))
    BY <1>1 DEF OrderInv, Path, Met, W!Innermost
<1>3. W!Innermost \in Packages /\ W!DependsOn(W!Innermost) \in Seq(Packages)
    BY <1>2, KnownTypes DEF OrderInv
<1>4. QED
    BY <1>1, <1>2, <1>3 DEF OrderInv, OrderTypes

LEMMA DependencyKeeps == ASSUME W!OrderAssumption, OrderInv, W!VisitDependency PROVE OrderInv'
<1> DEFINE next == met[W!Innermost] + 1
<1> DEFINE dependency == W!DependsOn(W!Innermost)[next]
<1>1. /\ visiting # <<>> /\ visiting \in Seq(Packages) /\ Len(visiting) \in DOMAIN visiting
      /\ W!Innermost \in W!Known /\ W!Innermost \in Packages /\ ~W!Visited(W!Innermost)
      /\ W!DependsOn(W!Innermost) \in Seq(Packages)
      /\ met[W!Innermost] \in Nat /\ next \in DOMAIN W!DependsOn(W!Innermost)
    <2>1. visiting # <<>> /\ met[W!Innermost] < Len(W!DependsOn(W!Innermost))
        BY DEF W!VisitDependency
    <2>2. QED
        BY <2>1, AtDependency
<1>2. /\ W!Known' = W!Known /\ W!Ranks' = W!Ranks /\ \A x : W!DependsOn(x)' = W!DependsOn(x)
      /\ \A x : W!Visited(x)' = W!Visited(x)
      /\ UNCHANGED <<plugins, turn, ordered_plugins>>
    BY SamePlugins DEF W!VisitDependency, W!Visited
<1>3. Sorted'
    BY <1>2 DEF OrderInv, Sorted, W!Distinct
<1>4. CASE refused' = "missing" /\ dependency \notin W!Known /\ UNCHANGED <<visiting, met>>
    <2>1. W!Ranks = {}
        BY <1>1, <1>4 DEF W!Ranks
    <2>2. QED
        BY <1>2, <1>3, <1>4, <2>1 DEF OrderInv, OrderTypes, Path, Met, Unmet, Turned, W!Distinct
<1>5. CASE refused' = "circle" /\ W!Circle(dependency) /\ UNCHANGED <<visiting, met>>
    <2>1. ASSUME NEW rank \in W!Ranks PROVE FALSE
        <3>1. PICK i \in DOMAIN visiting : visiting[i] = dependency
            BY <1>5 DEF W!Circle, W!In
        <3>2. plugins \in Seq(W!Plugin)
            BY KnownTypes DEF OrderInv
        <3>3. dependency \in W!Known /\ rank[dependency] < rank[W!Innermost]
            BY <1>1, <2>1 DEF W!Ranks
        <3>4. rank[dependency] \in Nat /\ rank[W!Innermost] \in Nat
            BY <1>1, <2>1, <3>2, <3>3 DEF W!Ranks
        <3>5. i = Len(visiting) \/ rank[W!Innermost] < rank[dependency]
            BY <1>1, <2>1, <3>1 DEF OrderInv, Path, W!Innermost
        <3>6. QED
            BY <3>1, <3>3, <3>4, <3>5 DEF W!Innermost
    <2>2. QED
        BY <1>2, <1>3, <1>5, <2>1 DEF OrderInv, OrderTypes, Path, Met, Unmet, Turned, W!Distinct
<1>6. CASE /\ dependency \in W!Known /\ (W!Visited(dependency) \/ ~W!Circle(dependency))
           /\ met' = [met EXCEPT ![W!Innermost] = @ + 1] /\ W!Enter(dependency) /\ UNCHANGED refused
    <2>1. ~W!In(dependency, visiting)
        BY <1>6 DEF W!Circle, W!In, OrderInv, Path
    <2>2. \A rank \in W!Ranks : rank[dependency] < rank[W!Innermost]
        BY <1>1 DEF W!Ranks
    <2>3. /\ visiting' \in Seq(Packages) /\ Path'
          /\ Len(visiting') = IF W!Visited(dependency) THEN Len(visiting) ELSE Len(visiting) + 1
          /\ \A i \in DOMAIN visiting : i \in DOMAIN visiting' /\ visiting'[i] = visiting[i]
          /\ W!Visited(dependency) \/ visiting'[Len(visiting) + 1] = dependency
          /\ \A i \in DOMAIN visiting' : i \in DOMAIN visiting \/ (i = Len(visiting) + 1 /\ visiting'[i] = dependency)
        BY <1>2, <1>6, <2>1, <2>2, Entered
    <2> HIDE DEF dependency, next
    <2>4. met \in [Packages -> Nat]
        BY DEF OrderInv, OrderTypes
    <2>5. OrderTypes'
        BY <1>1, <1>2, <1>6, <2>3, <2>4 DEF OrderInv, OrderTypes
    <2>6. ASSUME NEW i \in DOMAIN visiting'
          PROVE  /\ met'[visiting'[i]] <= Len(W!DependsOn(visiting'[i]))
                 /\ \A d \in 1..met'[visiting'[i]] :
                      \/ W!Visited(W!DependsOn(visiting'[i])[d])
                      \/ d = met'[visiting'[i]] /\ i < Len(visiting') /\ visiting'[i + 1] = W!DependsOn(visiting'[i])[d]
        <3>1. CASE i \in DOMAIN visiting /\ i # Len(visiting)
            <4>1. visiting[i] # W!Innermost /\ visiting[i] \in Packages
                BY <1>1, <3>1 DEF OrderInv, Path, W!Distinct, W!Innermost
            <4>2. met'[visiting[i]] = met[visiting[i]] /\ visiting'[i] = visiting[i]
                BY <1>6, <2>3, <2>4, <3>1, <4>1
            <4>3. i + 1 \in DOMAIN visiting /\ visiting'[i + 1] = visiting[i + 1] /\ i < Len(visiting')
                BY <1>1, <2>3, <3>1
            <4>4. QED
                BY <3>1, <4>2, <4>3 DEF OrderInv, Met
        <3>2. CASE i = Len(visiting)
            <4>1. visiting'[i] = W!Innermost /\ met'[W!Innermost] = next
                BY <1>1, <1>6, <2>3, <2>4, <3>2 DEF W!Innermost, next
            <4>2. \A d \in 1..met[W!Innermost] : W!Visited(W!DependsOn(W!Innermost)[d])
                BY <1>1 DEF OrderInv, Met, W!Innermost
            <4>3. W!Visited(dependency) \/ (i < Len(visiting') /\ visiting'[i + 1] = dependency)
                BY <1>1, <2>3, <3>2
            <4>4. QED
                BY <1>1, <4>1, <4>2, <4>3 DEF dependency, next
        <3>3. CASE i = Len(visiting) + 1 /\ visiting'[i] = dependency /\ ~W!Visited(dependency)
            <4>1. dependency \in Packages /\ Len(W!DependsOn(dependency)) \in Nat /\ dependency # W!Innermost
                <5>1. W!In(W!Innermost, visiting)
                    BY <1>1 DEF W!In, W!Innermost
                <5>2. QED
                    BY <1>6, <2>1, <5>1, KnownTypes DEF OrderInv
            <4>2. met'[dependency] = 0
                BY <1>1, <1>6, <2>1, <2>4, <3>3, <4>1 DEF OrderInv, Unmet
            <4>3. QED
                BY <3>3, <4>1, <4>2
        <3>4. i \in DOMAIN visiting \/ (i = Len(visiting) + 1 /\ visiting'[i] = dependency /\ ~W!Visited(dependency))
            BY <1>1, <2>3
        <3>5. QED
            BY <3>1, <3>2, <3>3, <3>4
    <2>7. Met'
        BY <1>2, <2>6 DEF Met
    <2>8. Unmet'
        <3>1. ASSUME NEW x \in Packages, ~W!Visited(x), ~W!In(x, visiting)'
              PROVE  met'[x] = 0
            <4>1. ~W!In(x, visiting) /\ x # W!Innermost
                BY <1>1, <2>3, <3>1 DEF W!In, W!Innermost
            <4>2. QED
                BY <1>6, <2>4, <3>1, <4>1 DEF OrderInv, Unmet
        <3>2. QED
            BY <1>2, <3>1 DEF Unmet
    <2>9. Turned'
        <3>1. 1 \in DOMAIN visiting /\ visiting' # <<>> /\ visiting'[1] = visiting[1]
            BY <1>1, <2>3
        <3>2. QED
            BY <1>2, <3>1 DEF OrderInv, Turned
    <2>10. QED
        BY <1>2, <1>3, <1>6, <2>3, <2>5, <2>7, <2>8, <2>9 DEF OrderInv
<1>7. QED
    BY <1>4, <1>5, <1>6 DEF W!VisitDependency

LEMMA LeaveKeeps == ASSUME W!OrderAssumption, OrderInv, W!Leave PROVE OrderInv'
<1> DEFINE last == Len(visiting)
<1>1. /\ visiting # <<>> /\ visiting \in Seq(Packages) /\ last \in DOMAIN visiting
      /\ W!Innermost \in W!Known /\ W!Innermost \in Packages /\ ~W!Visited(W!Innermost)
      /\ W!DependsOn(W!Innermost) \in Seq(Packages) /\ met[W!Innermost] = Len(W!DependsOn(W!Innermost))
      /\ ordered_plugins \in Seq(Packages)
    BY AtDependency DEF W!Leave, OrderInv, OrderTypes
<1>2. /\ W!Known' = W!Known /\ W!Ranks' = W!Ranks /\ \A x : W!DependsOn(x)' = W!DependsOn(x)
      /\ UNCHANGED <<plugins, turn, met, refused>>
    BY SamePlugins DEF W!Leave
<1>3. /\ visiting' \in Seq(Packages) /\ Len(visiting') = last - 1
      /\ DOMAIN visiting' = DOMAIN visiting \ {last}
      /\ \A i \in DOMAIN visiting' : visiting'[i] = visiting[i]
    <2>1. last \in Nat /\ last >= 1 /\ DOMAIN visiting = 1..last
        BY <1>1
    <2>2. visiting' = SubSeq(visiting, 1, last - 1)
        BY DEF W!Leave
    <2> HIDE DEF last
    <2>3. \A i \in 1..(last - 1) : visiting[i] \in Packages
        BY <1>1, <2>1
    <2>4. visiting' \in Seq(Packages) /\ Len(visiting') = last - 1
        BY <1>1, <2>1, <2>2, <2>3
    <2>5. \A i \in 1..(last - 1) : visiting'[i] = visiting[i]
        BY <1>1, <2>1, <2>2
    <2>6. DOMAIN visiting' = 1..(last - 1) /\ 1..(last - 1) = 1..last \ {last}
        BY <2>1, <2>4
    <2>7. QED
        BY <2>1, <2>4, <2>5, <2>6
<1>4. /\ ordered_plugins' \in Seq(Packages) /\ Len(ordered_plugins') = Len(ordered_plugins) + 1
      /\ \A i \in DOMAIN ordered_plugins : ordered_plugins'[i] = ordered_plugins[i]
      /\ ordered_plugins'[Len(ordered_plugins) + 1] = W!Innermost
    BY <1>1 DEF W!Leave
<1>5. \A x : W!In(x, ordered_plugins') <=> W!Visited(x) \/ x = W!Innermost
    <2>1. DOMAIN ordered_plugins' = DOMAIN ordered_plugins \cup {Len(ordered_plugins) + 1}
        BY <1>1, <1>4
    <2>2. QED
        BY <1>4, <2>1 DEF W!Visited, W!In
<1>6. OrderTypes'
    BY <1>2, <1>3, <1>4 DEF OrderInv, OrderTypes
<1>7. \A i \in DOMAIN visiting' : visiting[i] # W!Innermost
    BY <1>1, <1>3 DEF OrderInv, Path, W!Distinct, W!Innermost
<1>8. Path'
    <2>1. W!Distinct(visiting)'
        BY <1>3 DEF OrderInv, Path, W!Distinct
    <2>2. \A i \in DOMAIN visiting' : visiting'[i] \in W!Known' /\ ~W!Visited(visiting[i])'
        BY <1>2, <1>3, <1>5, <1>7 DEF OrderInv, Path, W!Visited
    <2>3. \A rank \in W!Ranks : \A i, j \in DOMAIN visiting' : i < j => rank[visiting'[j]] < rank[visiting'[i]]
        BY <1>3 DEF OrderInv, Path
    <2>4. QED
        BY <1>2, <2>1, <2>2, <2>3 DEF Path
<1>9. Met'
    <2>1. ASSUME NEW i \in DOMAIN visiting', NEW d \in 1..met[visiting[i]]
          PROVE  \/ W!In(W!DependsOn(visiting[i])[d], ordered_plugins')
                 \/ d = met[visiting[i]] /\ i < Len(visiting') /\ visiting'[i + 1] = W!DependsOn(visiting[i])[d]
        <3>1. i \in DOMAIN visiting
            BY <1>3
        <3>2. CASE W!Visited(W!DependsOn(visiting[i])[d])
            BY <1>5, <3>2
        <3>3. CASE d = met[visiting[i]] /\ i < last /\ visiting[i + 1] = W!DependsOn(visiting[i])[d]
            <4>1. CASE i + 1 = last
                <5>1. W!DependsOn(visiting[i])[d] = W!Innermost
                    BY <3>3, <4>1 DEF W!Innermost
                <5>2. QED
                    BY <1>5, <5>1
            <4>2. CASE i + 1 # last
                BY <1>1, <1>3, <3>1, <3>3, <4>2
            <4>3. QED
                BY <4>1, <4>2
        <3>4. QED
            BY <3>1, <3>2, <3>3 DEF OrderInv, Met
    <2>2. \A i \in DOMAIN visiting' : met[visiting[i]] <= Len(W!DependsOn(visiting[i]))
        BY <1>3 DEF OrderInv, Met
    <2>3. QED
        BY <1>2, <1>3, <2>1, <2>2 DEF Met, W!Visited
<1>10. Unmet'
    <2>1. ASSUME NEW x \in Packages, ~W!Visited(x)', ~W!In(x, visiting)'
          PROVE  ~W!In(x, visiting) /\ ~W!Visited(x)
        <3>1. ~W!Visited(x) /\ x # W!Innermost
            BY <1>5, <2>1 DEF W!Visited
        <3>2. QED
            BY <1>1, <1>3, <2>1, <3>1 DEF W!In, W!Innermost
    <2>2. QED
        BY <1>2, <2>1 DEF OrderInv, Unmet
<1>11. Sorted'
    <2>1. W!Distinct(ordered_plugins)'
        BY <1>1, <1>4 DEF OrderInv, Sorted, W!Distinct, W!Visited, W!In
    <2>2. ASSUME NEW i \in DOMAIN ordered_plugins
          PROVE  /\ ordered_plugins'[i] \in W!Known
                 /\ \A d \in DOMAIN W!DependsOn(ordered_plugins'[i]) :
                      \E j \in 1..(i - 1) : ordered_plugins'[j] = W!DependsOn(ordered_plugins'[i])[d]
        <3>1. \A j \in 1..(i - 1) : j \in DOMAIN ordered_plugins
            BY <1>1
        <3>2. QED
            BY <1>4, <3>1 DEF OrderInv, Sorted
    <2>3. ASSUME NEW d \in DOMAIN W!DependsOn(W!Innermost)
          PROVE  \E j \in 1..Len(ordered_plugins) : ordered_plugins'[j] = W!DependsOn(W!Innermost)[d]
        <3>1. d \in 1..met[W!Innermost]
            BY <1>1
        <3>2. W!Visited(W!DependsOn(W!Innermost)[d])
            BY <1>1, <3>1 DEF OrderInv, Met, W!Innermost
        <3>3. QED
            BY <1>1, <1>4, <3>2 DEF W!Visited, W!In
    <2>4. \A i \in DOMAIN ordered_plugins' : i \in DOMAIN ordered_plugins \/ i = Len(ordered_plugins) + 1
        BY <1>1, <1>4
    <2>5. Len(ordered_plugins) + 1 - 1 = Len(ordered_plugins)
        BY <1>1
    <2>6. ASSUME NEW i \in DOMAIN ordered_plugins'
          PROVE  /\ ordered_plugins'[i] \in W!Known
                 /\ \A d \in DOMAIN W!DependsOn(ordered_plugins'[i]) :
                      \E j \in 1..(i - 1) : ordered_plugins'[j] = W!DependsOn(ordered_plugins'[i])[d]
        <3>1. CASE i \in DOMAIN ordered_plugins
            BY <2>2, <3>1
        <3>2. CASE i = Len(ordered_plugins) + 1
            BY <1>1, <1>4, <2>3, <2>5, <3>2
        <3>3. QED
            BY <2>4, <3>1, <3>2
    <2>7. QED
        BY <1>2, <2>1, <2>6 DEF Sorted
<1>12. Turned'
    <2>1. ASSUME NEW i \in 1..(turn - 1), ~W!Visited(plugins[i].name)'
          PROVE  i = turn - 1 /\ visiting' # <<>> /\ visiting'[1] = plugins[i].name
        <3>1. i = turn - 1 /\ visiting[1] = plugins[i].name /\ plugins[i].name # W!Innermost
            BY <1>2, <1>5, <2>1 DEF OrderInv, Turned, W!Visited
        <3>2. last # 1
            BY <3>1 DEF W!Innermost
        <3>3. QED
            BY <1>1, <1>3, <3>1, <3>2
    <2>2. QED
        BY <1>2, <2>1 DEF Turned
<1>13. QED
    BY <1>2, <1>6, <1>8, <1>9, <1>10, <1>11, <1>12 DEF OrderInv

LEMMA OrderStays == ASSUME OrderInv, UNCHANGED W!vars PROVE OrderInv'
<1>1. /\ W!Known' = W!Known /\ W!Ranks' = W!Ranks /\ \A x : W!DependsOn(x)' = W!DependsOn(x)
      /\ \A x : W!Visited(x)' = W!Visited(x)
    BY SamePlugins DEF W!vars, W!Visited
<1>2. QED
    BY <1>1 DEF W!vars, OrderInv, OrderTypes, Path, Met, Unmet, Sorted, Turned, W!Distinct, W!In

LEMMA OrderShown == ASSUME W!OrderAssumption, OrderInv PROVE W!OrderRight
<1>1. ASSUME visiting = <<>>, turn > Len(plugins), NEW n \in W!Known PROVE W!Visited(n)
    <2>1. PICK i \in DOMAIN plugins : plugins[i].name = n
        BY DEF W!Known
    <2>2. plugins \in Seq(W!Plugin) /\ turn \in 1..(Len(plugins) + 1)
        BY KnownTypes DEF OrderInv, OrderTypes
    <2>3. i \in 1..(turn - 1)
        BY <1>1, <2>1, <2>2
    <2>4. QED
        BY <1>1, <2>1, <2>3 DEF OrderInv, Turned
<1>2. QED
    BY <1>1 DEF OrderInv, Path, Sorted, W!OrderRight

\* Every plugin once, behind what it depends on, or an error when that cannot be,
\* for any plugins (resolve_plugin_order).
THEOREM OrderOfPlugins == W!OrderAssumption /\ W!Spec => []W!OrderRight
<1>1. W!OrderAssumption /\ W!Init => OrderInv
    BY OrderInit
<1>2. W!OrderAssumption /\ OrderInv /\ [W!Next]_W!vars => OrderInv'
    BY NextKeeps, DependencyKeeps, LeaveKeeps, OrderStays DEF W!Next
<1>3. W!OrderAssumption /\ OrderInv => W!OrderRight
    BY OrderShown
<1>4. W!OrderAssumption => W!OrderAssumption'
    BY DEF W!OrderAssumption
<1>5. QED
    BY <1>1, <1>2, <1>3, <1>4, PTL DEF W!Spec

\* A behaviour in which plugins are put in order is one of PluginOrder.
LEMMA OrderPart == Spec /\ part = "order" => W!Spec
  <1>1. Init /\ part = "order" => W!Init
    BY DEF Init
  <1>2. [Next]_vars /\ part = "order" => [W!Next]_W!vars /\ (part = "order")'
    BY DEF Next, RowsStep, LoginStep, Oauth2Step, PluginsStep, OnlineStep, OrderStep, vars, orderOwn,
           W!vars
  <1> QED
    BY <1>1, <1>2, PTL DEF Spec, W!Spec

\* Once the jobs have ended, what a restart would load otherwise is announced; and
\* however plugins depend on each other, a start loads each once and behind what it
\* depends on, and fails only when there is no such order (plugin_service.py,
\* plugin/core.py).
THEOREM ServicesPluginsLoaded == Spec => []PluginsLoaded
  <1>1. P!PluginAssumption /\ W!OrderAssumption
    BY ServicesAssumption
  <1>2. /\ [Next]_vars /\ part # "plugins" => (part # "plugins")'
        /\ [Next]_vars /\ part # "order" => (part # "order")'
    BY OnePart
  <1>3. Spec /\ part = "plugins" => P!Spec
    BY PluginsPart
  <1>4. Spec /\ part = "order" => W!Spec
    BY OrderPart
  <1>5. P!PluginAssumption /\ P!Spec => []P!ChangesTold
    BY PluginChangesTold
  <1>6. W!OrderAssumption /\ W!Spec => []W!OrderRight
    BY OrderOfPlugins
  <1>7. (part # "plugins" \/ P!ChangesTold) /\ (part # "order" \/ W!OrderRight) => PluginsLoaded
    BY DEF PluginsLoaded
  <1>8. Spec => [](part # "plugins" \/ P!ChangesTold)
    <2>1. Spec /\ part = "plugins" => [](part # "plugins" \/ P!ChangesTold)
      BY <1>1, <1>3, <1>5, PTL
    <2>2. Spec /\ part # "plugins" => [](part # "plugins" \/ P!ChangesTold)
      BY <1>2, PTL DEF Spec
    <2> QED
      BY <2>1, <2>2
  <1>9. Spec => [](part # "order" \/ W!OrderRight)
    <2>1. Spec /\ part = "order" => [](part # "order" \/ W!OrderRight)
      BY <1>1, <1>4, <1>6, PTL
    <2>2. Spec /\ part # "order" => [](part # "order" \/ W!OrderRight)
      BY <1>2, PTL DEF Spec
    <2> QED
      BY <2>1, <2>2
  <1> QED
    BY <1>7, <1>8, <1>9, PTL

=============================================================================
